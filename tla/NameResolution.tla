--------------------------- MODULE NameResolution ---------------------------
(***************************************************************************)
(* What the catalog of dashql-core promises to the analyzer, without its   *)
(* secondary indexes: every registered entry has a rank and a set of       *)
(* tables, a table name resolves to the entry of the lowest rank that has  *)
(* it, and the version moves with every change.                            *)
(***************************************************************************)
EXTENDS Naturals

CONSTANTS
  Scripts,   \* the scripts that are analyzed
  ScriptId,  \* the id of a script's entry, registered or not
  EntryIds,  \* the ids of catalog entries, ordered
  Ranks,     \* the ranks of catalog entries, a lower one wins
  Tables,    \* the qualified table names
  None       \* no entry, no rank

VARIABLES
  contents,    \* the rank and the tables of an entry
  references,  \* what the references of an analyzed script resolved to
  version      \* the catalog version

vars == <<contents, references, version>>

Absent == [rank |-> None, tables |-> {}]
Present(id) == contents[id].rank # None

Wins(i, j) == \/ contents[i].rank < contents[j].rank
              \/ contents[i].rank = contents[j].rank /\ i < j

Lookup(t, ignored) ==
  LET found == {id \in EntryIds \ {ignored} : Present(id) /\ t \in contents[id].tables} IN
  IF found = {} THEN None
  ELSE CHOOSE i \in found : \A j \in found \ {i} : Wins(i, j)

-----------------------------------------------------------------------------
Init ==
  /\ contents = [id \in EntryIds |-> Absent]
  /\ references = [s \in Scripts |-> {}]
  /\ version = 1

\* A script resolves its references, to its own tables first.
Analyze(s) ==
  /\ \E own, reads \in SUBSET Tables :
       references' = [references EXCEPT ![s] =
         {<<t, IF t \in own THEN ScriptId[s] ELSE Lookup(t, ScriptId[s])>> : t \in reads}]
  /\ UNCHANGED <<contents, version>>

Forget(s) == references' = [references EXCEPT ![s] = {}]

\* An entry is registered or its tables are replaced: its rank is for life.
Put(id) ==
  /\ \E rank \in Ranks, tables \in SUBSET Tables :
       /\ contents[id].rank \in {None, rank}
       /\ contents' = [contents EXCEPT ![id] = [rank |-> rank, tables |-> tables]]
  /\ version' = version + 1
  /\ UNCHANGED references

Remove(id) ==
  /\ Present(id)
  /\ contents' = [contents EXCEPT ![id] = Absent]
  /\ version' = version + 1
  /\ UNCHANGED references \/ \E s \in Scripts : Forget(s)

Clear ==
  /\ contents' = [id \in EntryIds |-> Absent]
  /\ version' = version + 1
  /\ UNCHANGED references

Next ==
  \/ \E s \in Scripts : Analyze(s) \/ (Forget(s) /\ UNCHANGED <<contents, version>>)
  \/ \E id \in EntryIds : Put(id) \/ Remove(id)
  \/ Clear

Spec == Init /\ [][Next]_vars
=============================================================================
