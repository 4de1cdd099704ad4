--------------------------- MODULE DesiredState ---------------------------
(***************************************************************************)
(* The three desired-state documents and what the code derives from them.  *)
(*                                                                         *)
(* A document is what the code tells apart in its bytes: whether it starts *)
(* with the "Kavernis desired-state configuration" header, and its body,   *)
(* an opaque value.  `AsText' maps a document to what is left of it when   *)
(* every line end is turned into "\n" (what Git's output goes through when *)
(* it is read in text mode; a header with other line ends becomes one      *)
(* then), `Means' maps a body to the typed document it loads to, or to     *)
(* Invalid when the schema or the model refuses it.  A tree says which of  *)
(* the documents exist and what they hold: it is the desired-state         *)
(* directory, a snapshot of it, and a revision of the history.             *)
(***************************************************************************)
EXTENDS Naturals, Absence

CONSTANTS
  LastFile,      \* number of documents: interfaces, gateways, routes
  Bodies,        \* what follows the header in a document
  AsText,        \* document |-> the same document with "\n" line ends
  Meanings,      \* typed documents
  Invalid,       \* what a body means that fails its own validation
  Means,         \* body |-> its typed document, or Invalid
  EmptyBody,     \* the text an absent optional document is edited from
  EmptyMeaning   \* the typed document an absent optional file stands for

\* Files are numbered in the order the code lists them.
Files == 1 .. LastFile
Interfaces == 1

Docs == [body : Bodies, header : BOOLEAN]
Trees == [Files -> Docs \cup {Absent}]
Intents == [Files -> Meanings \cup {Invalid}]

ASSUME FilesAssumption == LastFile \in Nat /\ LastFile >= 1

ASSUME DocsAssumption ==
  /\ Absent \notin Docs
  /\ EmptyBody \in Bodies

\* Turning line ends twice changes nothing more, a header has "\n" line ends
\* already, and YAML reads every kind of line end alike.
ASSUME AsTextAssumption ==
  /\ AsText \in [Docs -> Docs]
  /\ \A d \in Docs : /\ AsText[AsText[d]] = AsText[d]
                     /\ d.header => AsText[d].header
                     /\ Means[AsText[d].body] = Means[d.body]

ASSUME MeansAssumption ==
  /\ Means \in [Bodies -> Meanings \cup {Invalid}]
  /\ Invalid \notin Meanings
  /\ EmptyMeaning \in Meanings
  /\ Means[EmptyBody] = EmptyMeaning

EmptyTree == [f \in Files |-> Absent]
Present(t) == {f \in Files : t[f] # Absent}

\* The header is added unless the document already starts with it.
WithHeader(d) == [d EXCEPT !.header = TRUE]

\* `git show' is captured in text mode and encoded again.
ReadBack(d) == AsText[d]

EmptyDoc == [body |-> EmptyBody, header |-> FALSE]

\* An absent optional document means the same as an empty one.
Intent(t) ==
  [f \in Files |-> IF t[f] = Absent THEN EmptyMeaning ELSE Means[t[f].body]]

\* Mutant: a missing interfaces document is taken for an empty one.
LoadsWithoutInterfaces(t) == \A f \in Files : Intent(t)[f] # Invalid

\* The mandatory document is there and every document is valid.
Loads(t) == t[Interfaces] # Absent /\ \A f \in Files : Intent(t)[f] # Invalid
=============================================================================
