------------------------------ MODULE HotState ------------------------------
(***************************************************************************)
(* The state a program saves before it is reloaded: a file of a header and *)
(* the data.  Saving truncates the file and writes it anew; it fails, or   *)
(* the program dies, at any point.  Restoring reads into a buffer of the   *)
(* size the new program has.                                               *)
(***************************************************************************)
EXTENDS Integers, Sequences

CONSTANTS
  Layouts,      \* layout metadata, told apart by their hash
  Versions,     \* XIOM_HOT_STATE_VERSION of the programs that meet
  DataSizes,    \* units of data saved, and of the buffer restored into
  MaxSaves      \* bound on the saves

\* "legacy" stands for the empty metadata of the legacy calls, "none" for no call.
ASSUME StateAssumption == DataSizes \subseteq Nat /\ Layouts \cap {"legacy", "none"} = {}

VARIABLES
  saves,        \* history: the saves begun: their layout, version and size
  saving,       \* the save in progress, 0 for none
  file,         \* the units of the file; the header is one
  asked,        \* the last restore: who asked, and for what
  rc,           \* its answer
  restored        \* the buffer it was given

stateVars == <<saves, saving, file, asked, rc, restored>>

NoFile    == <<>>
Short     == [kind |-> "part", save |-> 0, index |-> 0]     \* of a header
HeaderOf(k)  == [kind |-> "header", save |-> k, index |-> 0]
DataOf(k, i) == [kind |-> "data", save |-> k, index |-> i]
Old(i)       == DataOf(0, i)                                 \* of a file without a header
Untouched    == [kind |-> "untouched", save |-> 0, index |-> 0]
NotAsked     == [layout |-> "none", version |-> 0, size |-> 0]

Whole(k) == <<HeaderOf(k)>> \o [i \in 1 .. saves[k].size |-> DataOf(k, i)]

Smaller(m, n) == IF m < n THEN m ELSE n
Blank(n) == [i \in 1 .. n |-> Untouched]

\* The first n units of s over the beginning of a buffer.
Into(s, n, b) == [i \in DOMAIN b |-> IF i <= Smaller(n, Len(s)) THEN s[i] ELSE b[i]]

Restored(r, b) == [rc |-> r, restored |-> b]

\* xiom_hot_restore_state_v2: as much of the data as both sides have.
Restore(who, b) ==
  IF file = NoFile \/ file[1].kind = "part" THEN Restored(-1, b)
  ELSE IF file[1].kind # "header" THEN Restored(-2, b)
  ELSE IF saves[file[1].save].version # who.version THEN Restored(-3, b)
  ELSE IF saves[file[1].save].layout # who.layout THEN Restored(-4, b)
  ELSE LET n == Smaller(saves[file[1].save].size, Len(b))
       IN Restored(IF Len(file) - 1 < n THEN -1 ELSE 0, Into(Tail(file), n, b))
-----------------------------------------------------------------------------
StateInit ==
  /\ saves = <<>> /\ saving = 0
  /\ file \in {NoFile} \cup {[i \in 1 .. n |-> Old(i)] : n \in DataSizes}
  /\ asked = NotAsked /\ rc = 0 /\ restored = <<>>

\* xiom_hot_save_state_v2 (and _legacy, with a layout of its own): fopen "wb".
BeginSave(layout, ver, size) ==
  /\ saving = 0 /\ Len(saves) < MaxSaves
  /\ saves' = Append(saves, [layout |-> layout, version |-> ver, size |-> size])
  /\ saving' = Len(saves) + 1 /\ file' = NoFile
  /\ UNCHANGED <<asked, rc, restored>>

\* fwrite and fclose; of a save that dies on the way any part is in the file.
FinishSave ==
  /\ saving > 0 /\ file' = Whole(saving) /\ saving' = 0
  /\ UNCHANGED <<saves, asked, rc, restored>>

DieInSave ==
  /\ saving > 0 /\ saving' = 0
  /\ file' \in {SubSeq(Whole(saving), 1, n) : n \in 0 .. saves[saving].size} \cup {<<Short>>}
  /\ UNCHANGED <<saves, asked, rc, restored>>

RestoreState(who) ==
  LET r == Restore(who, Blank(who.size))
  IN /\ saving = 0
     /\ asked' = who /\ rc' = r.rc /\ restored' = r.restored
     /\ UNCHANGED <<saves, saving, file>>

\* xiom_hot_restore_state_legacy: a file that is not what v2 expects is read as it is.
RestoreLegacy(ver, size) ==
  LET who == [layout |-> "legacy", version |-> ver, size |-> size]
      r == Restore(who, Blank(size))
  IN /\ saving = 0
     /\ asked' = who
     /\ IF r.rc \in {-2, -3, -4}
        THEN rc' = (IF Len(file) < size THEN -1 ELSE 0) /\ restored' = Into(file, size, r.restored)
        ELSE rc' = r.rc /\ restored' = r.restored
     /\ UNCHANGED <<saves, saving, file>>

StateNext ==
  \/ \E ver \in Versions, size \in DataSizes :
       \/ \E layout \in Layouts \cup {"legacy"} : BeginSave(layout, ver, size)
       \/ \E layout \in Layouts : RestoreState([layout |-> layout, version |-> ver, size |-> size])
       \/ RestoreLegacy(ver, size)
  \/ FinishSave \/ DieInSave
-----------------------------------------------------------------------------
(* Properties *)

\* "State restored into provided buffer": a restore that answers 0 has filled the
\* buffer with the units of one save, by a program of the same version and layout,
\* from the first on and as many as that program saved; a save that died midway
\* is never restored beyond what it wrote, and a mismatch leaves the buffer alone.
\* The legacy restore, which also takes files without a header, is not held to it.
RestoreIsWhole ==
  asked.layout \in Layouts =>
    /\ rc \in {-2, -3, -4} => restored = Blank(asked.size)
    /\ rc = 0 => \E k \in DOMAIN saves :
         /\ saves[k].layout = asked.layout /\ saves[k].version = asked.version
         /\ \A i \in DOMAIN restored :
              restored[i] = IF i <= saves[k].size THEN DataOf(k, i) ELSE Untouched
=============================================================================
