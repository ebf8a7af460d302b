--------------------------- MODULE RemoteSaveProofs ---------------------------
(***************************************************************************)
(* Machine-checked proofs about RemoteSave, for any sets of edits and      *)
(* foreign changes, any bound on fingerprints and both kinds of backend.   *)
(***************************************************************************)
EXTENDS RemoteSave, TLAPS

(***************************************************************************)
(* Type correctness                                                        *)
(***************************************************************************)

\* Laying edits over a content gives a content.
LEMMA ApplyType ==
    ASSUME NEW es, NEW base \in Contents
    PROVE  Apply(es, base) \in Contents
  BY DEF Apply, Contents

\* A foreign change to a content gives a content.
LEMMA ForeignType ==
    ASSUME NEW c \in Contents, NEW m \in Foreign
    PROVE  [c EXCEPT ![m] = 1] \in Contents
  BY DEF Contents, Marks

\* Once the document has been streamed out, the save owns a temporary file
\* and the page it was produced from is in the cache.
Streamed ==
    /\ phase \in {"written", "checked"} => temp \in Contents
    /\ phase \in {"written", "checked", "renamed"} => page \in Contents

TypeInv == TypeOK /\ Streamed

LEMMA TypeInit == Init => TypeInv
  BY RemoteConstants DEF Init, TypeInv, TypeOK, Streamed, Empty, Contents, Phases

LEMMA TypeStep == TypeInv /\ [Next]_vars => TypeInv'
<1> SUFFICES ASSUME TypeInv, [Next]_vars PROVE TypeInv'
  OBVIOUS
<1> USE RemoteConstants DEF TypeInv, TypeOK, Streamed, serverVars, sourceVars
<1>1. CASE \E e \in Edits : Edit(e)
  BY <1>1 DEF Edit
<1>2. CASE ReadPage \/ EvictPage
  BY <1>2 DEF ReadPage, EvictPage, PageOrRead, ReadContent
<1>3. ASSUME NEW m \in Foreign, NEW inPlace \in BOOLEAN, NEW fresh \in Fresh,
             ForeignWrite(m, inPlace, fresh)
      PROVE  TypeInv'
  <2>1. [file.content EXCEPT ![m] = 1] \in Contents
    BY ForeignType
  <2>2. handle' \in {"current", "unlinked", "closed"} /\ unlinked' \in Contents
    BY <1>3 DEF ForeignWrite, UnlinkTarget
  <2>3. file' \in [content : Contents, fp : Nat] /\ clock' \in Nat
    BY <1>3, <2>1 DEF ForeignWrite, StoreTarget
  <2> QED
    BY <1>3, <2>2, <2>3 DEF ForeignWrite
<1>4. CASE \E from \in Phases : Fail(from)
  BY <1>4 DEF Fail, Return, Phases
<1>5. CASE \E from \in {"idle", "written"} : Conflict(from)
  BY <1>5 DEF Conflict, Return, Phases
<1>6. CASE BeginSave
  <2>1. Empty \in Contents
    BY DEF Empty, Contents
  <2> QED
    BY <1>6, <2>1 DEF BeginSave, Phases
<1>7. CASE WriteTemp
  <2>1. PageOrRead \in Contents
    BY DEF PageOrRead, ReadContent
  <2>2. Apply(edits, PageOrRead) \in Contents
    BY <2>1, ApplyType
  <2> QED
    BY <1>7, <2>1, <2>2 DEF WriteTemp, Phases
<1>8. CASE CheckFingerprint
  BY <1>8 DEF CheckFingerprint, Phases
<1>9. ASSUME NEW fresh \in Fresh, NEW confirmed \in BOOLEAN,
             Rename(fresh, confirmed)
      PROVE  TypeInv'
  <2>1. temp \in Contents /\ page \in Contents
    BY <1>9 DEF Rename
  <2>2. file' \in [content : Contents, fp : Nat] /\ clock' \in Nat
    BY <1>9, <2>1 DEF Rename, ReplaceTarget, StoreTarget
  <2>3. handle' \in {"current", "unlinked", "closed"} /\ unlinked' \in Contents
    BY <1>9 DEF Rename, ReplaceTarget, UnlinkTarget
  <2>4. lost' \subseteq Foreign
    BY <1>9 DEF Rename, ReplaceTarget
  <2> QED
    BY <1>9, <2>1, <2>2, <2>3, <2>4 DEF Rename, Return, Phases
<1>10. CASE CompleteSave
  BY <1>10 DEF CompleteSave, Phases
<1>11. CASE ReloadStat
  BY <1>11 DEF ReloadStat, Reloaded, Return, Phases
<1>12. CASE ReloadOpen
  BY <1>12 DEF ReloadOpen, Reloaded, Return, Phases
<1>13. CASE UNCHANGED vars
  BY <1>13 DEF vars
<1> QED
  BY <1>1, <1>2, <1>3, <1>4, <1>5, <1>6, <1>7, <1>8, <1>9, <1>10, <1>11,
     <1>12, <1>13 DEF Next

\* Every variable of the remote save keeps its type.
THEOREM TypeCorrect == Spec => []TypeOK
<1>1. TypeInv => TypeOK
  BY DEF TypeInv
<1> QED
  BY <1>1, TypeInit, TypeStep, PTL DEF Spec

(***************************************************************************)
(* No edit is lost                                                         *)
(***************************************************************************)

\* An edit that is no longer pending is in the file and in everything the
\* next save could read; a streamed save carries every edit; a renamed one
\* has put every edit into the file.
EditsInv ==
    /\ edits \subseteq made
    /\ ReadsByPath => handle = "current"
    /\ \A e \in made \ edits :
          /\ file.content[e] > 0
          /\ handle = "unlinked" => unlinked[e] > 0
          /\ page # NoContent => page[e] > 0
    /\ phase \in {"written", "checked"} => \A e \in made : temp[e] > 0
    /\ phase \in {"renamed", "completing", "reopening"} =>
          \A e \in made : file.content[e] > 0

LEMMA EditsStep ==
    ASSUME TypeInv, EditsInv, [Next]_vars PROVE EditsInv'
<1> USE RemoteConstants DEF TypeInv, TypeOK, Streamed, EditsInv, serverVars,
        sourceVars, Contents, Marks
<1>1. CASE \E e \in Edits : Edit(e)
  BY <1>1 DEF Edit
<1>2. CASE ReadPage \/ EvictPage
  BY <1>2 DEF ReadPage, EvictPage, PageOrRead, ReadContent, CanRead
<1>3. ASSUME NEW m \in Foreign, NEW inPlace \in BOOLEAN, NEW fresh \in Fresh,
             ForeignWrite(m, inPlace, fresh)
      PROVE  EditsInv'
  BY <1>3 DEF ForeignWrite, StoreTarget, UnlinkTarget
<1>4. CASE \E from \in Phases : Fail(from)
  BY <1>4 DEF Fail, Return
<1>5. CASE \E from \in {"idle", "written"} : Conflict(from)
  BY <1>5 DEF Conflict, Return
<1>6. CASE BeginSave
  BY <1>6 DEF BeginSave
<1>7. CASE WriteTemp
  BY <1>7 DEF WriteTemp, Apply, PageOrRead, ReadContent, CanRead
<1>8. CASE CheckFingerprint
  BY <1>8 DEF CheckFingerprint
<1>9. ASSUME NEW fresh \in Fresh, NEW confirmed \in BOOLEAN,
             Rename(fresh, confirmed)
      PROVE  EditsInv'
  BY <1>9 DEF Rename, ReplaceTarget, StoreTarget, UnlinkTarget, Return
<1>10. CASE CompleteSave
  BY <1>10 DEF CompleteSave
<1>11. CASE ReloadStat
  BY <1>11 DEF ReloadStat, Reloaded, Return
<1>12. CASE ReloadOpen
  BY <1>12 DEF ReloadOpen, Reloaded, Return
<1>13. CASE UNCHANGED vars
  BY <1>13 DEF vars
<1> QED
  BY <1>1, <1>2, <1>3, <1>4, <1>5, <1>6, <1>7, <1>8, <1>9, <1>10, <1>11,
     <1>12, <1>13 DEF Next

\* A save that fails at any request, and any number of retries, never costs
\* the user an edit.
THEOREM EditsSafe == Spec => []EditsNeverLost
<1>1. Init => TypeInv /\ EditsInv
  BY TypeInit, RemoteConstants DEF Init, EditsInv
<1>2. (TypeInv /\ EditsInv) /\ [Next]_vars => (TypeInv /\ EditsInv)'
  BY TypeStep, EditsStep
<1>3. TypeInv /\ EditsInv => EditsNeverLost
  BY DEF EditsInv, EditsNeverLost
<1> QED
  BY <1>1, <1>2, <1>3, PTL DEF Spec

(***************************************************************************)
(* No foreign change is silently overwritten                               *)
(***************************************************************************)

Unexcused == {m \in Foreign \ excused : file.content[m] > 0}

ForeignInv ==
    /\ lost \subseteq excused
    /\ file.fp <= clock /\ known <= clock /\ statted <= clock
    /\ phase = "reopening" => handle = "closed"
    /\ file.fp = known =>
          \A m \in Unexcused : /\ page # NoContent => page[m] > 0
                               /\ handle = "unlinked" => unlinked[m] > 0
    /\ phase = "written" /\ file.fp = known => \A m \in Unexcused : temp[m] > 0
    /\ phase = "checked" => \A m \in Unexcused : temp[m] > 0
    /\ phase \in {"written", "checked"} =>
          \A m \in Foreign : temp[m] > 0 <=> page[m] > 0
    /\ page # NoContent /\ handle # "closed" =>
          \A m \in Foreign \ excused : page[m] > 0 => ReadContent[m] > 0
    /\ phase = "renamed" =>
          \A m \in Unexcused : /\ page[m] > 0
                               /\ handle = "unlinked" => unlinked[m] > 0

LEMMA ForeignStep ==
    ASSUME EditsInv, TypeInv, ForeignInv, [Next]_vars PROVE ForeignInv'
<1> USE RemoteConstants DEF TypeInv, TypeOK, Streamed, ForeignInv, serverVars,
        sourceVars, Contents, Marks,
        EditsInv, Unexcused, ReadContent
<1>1. CASE \E e \in Edits : Edit(e)
  BY <1>1 DEF Edit
<1>2. CASE ReadPage \/ EvictPage
  BY <1>2 DEF ReadPage, EvictPage, PageOrRead, ReadContent, CanRead
<1>3. ASSUME NEW m \in Foreign, NEW inPlace \in BOOLEAN, NEW fresh \in Fresh,
             ForeignWrite(m, inPlace, fresh)
      PROVE  ForeignInv'
  BY <1>3 DEF ForeignWrite, StoreTarget, UnlinkTarget
<1>4. CASE \E from \in Phases : Fail(from)
  BY <1>4 DEF Fail, Return
<1>5. CASE \E from \in {"idle", "written"} : Conflict(from)
  BY <1>5 DEF Conflict, Return
<1>6. CASE BeginSave
  BY <1>6 DEF BeginSave
<1>7. CASE WriteTemp
  BY <1>7 DEF WriteTemp, Apply, PageOrRead, ReadContent, CanRead
<1>8. CASE CheckFingerprint
  BY <1>8 DEF CheckFingerprint
<1>9. ASSUME NEW fresh \in Fresh, NEW confirmed \in BOOLEAN,
             Rename(fresh, confirmed)
      PROVE  ForeignInv'
  BY <1>9 DEF Rename, ReplaceTarget, StoreTarget, UnlinkTarget, Return
<1>10. CASE CompleteSave
  BY <1>10 DEF CompleteSave
<1>11. CASE ReloadStat
  BY <1>11 DEF ReloadStat, Reloaded, Return
<1>12. CASE ReloadOpen
  BY <1>12 DEF ReloadOpen, Reloaded, Return
<1>13. CASE UNCHANGED vars
  BY <1>13 DEF vars
<1> QED
  BY <1>1, <1>2, <1>3, <1>4, <1>5, <1>6, <1>7, <1>8, <1>9, <1>10, <1>11,
     <1>12, <1>13 DEF Next

\* A foreign change that gave the file another fingerprint before the last
\* check, or after the save, is never overwritten.
THEOREM ForeignSafe == Spec => []NoSilentLoss
<1>1. Init => TypeInv /\ EditsInv /\ ForeignInv
  <2>1. Init => EditsInv
    BY DEF Init, EditsInv
  <2>2. Init => ForeignInv
    BY DEF Init, ForeignInv, Unexcused, Empty, Marks
  <2> QED
    BY <2>1, <2>2, TypeInit
<1>2. (TypeInv /\ EditsInv /\ ForeignInv) /\ [Next]_vars =>
         (TypeInv /\ EditsInv /\ ForeignInv)'
  BY TypeStep, EditsStep, ForeignStep
<1>3. TypeInv /\ EditsInv /\ ForeignInv => NoSilentLoss
  BY DEF ForeignInv, NoSilentLoss
<1> QED
  BY <1>1, <1>2, <1>3, PTL DEF Spec

(***************************************************************************)
(* A retry does not apply an edit twice                                    *)
(***************************************************************************)

\* With a read handle, what the next save reads has no pending edit in it and
\* no edit twice.
OnceInv ==
    /\ \A e \in Edits :
          /\ file.content[e] <= 1
          /\ handle = "unlinked" => unlinked[e] <= 1
          /\ page # NoContent => page[e] <= 1
          /\ phase \in {"written", "checked"} => temp[e] <= 1
    /\ \A e \in (Edits \ made) \cup edits :
          /\ handle = "current" => file.content[e] = 0
          /\ handle = "unlinked" => unlinked[e] = 0
          /\ page # NoContent => page[e] = 0
    /\ \A e \in Edits \ made :
          /\ file.content[e] = 0
          /\ phase \in {"written", "checked"} => temp[e] = 0

LEMMA OnceStep ==
    ASSUME ~ReadsByPath, EditsInv, TypeInv, OnceInv, [Next]_vars PROVE OnceInv'
<1> USE RemoteConstants DEF TypeInv, TypeOK, Streamed, OnceInv, serverVars,
        sourceVars, Contents, Marks, EditsInv
<1>1. CASE \E e \in Edits : Edit(e)
  BY <1>1 DEF Edit
<1>2. CASE ReadPage \/ EvictPage
  BY <1>2 DEF ReadPage, EvictPage, PageOrRead, ReadContent, CanRead
<1>3. ASSUME NEW m \in Foreign, NEW inPlace \in BOOLEAN, NEW fresh \in Fresh,
             ForeignWrite(m, inPlace, fresh)
      PROVE  OnceInv'
  BY <1>3 DEF ForeignWrite, StoreTarget, UnlinkTarget
<1>4. CASE \E from \in Phases : Fail(from)
  BY <1>4 DEF Fail, Return
<1>5. CASE \E from \in {"idle", "written"} : Conflict(from)
  BY <1>5 DEF Conflict, Return
<1>6. CASE BeginSave
  BY <1>6 DEF BeginSave
<1>7. CASE WriteTemp
  BY <1>7 DEF WriteTemp, Apply, PageOrRead, ReadContent, CanRead
<1>8. CASE CheckFingerprint
  BY <1>8 DEF CheckFingerprint
<1>9. ASSUME NEW fresh \in Fresh, NEW confirmed \in BOOLEAN,
             Rename(fresh, confirmed)
      PROVE  OnceInv'
  BY <1>9 DEF Rename, ReplaceTarget, StoreTarget, UnlinkTarget, Return
<1>10. CASE CompleteSave
  BY <1>10 DEF CompleteSave
<1>11. CASE ReloadStat
  BY <1>11 DEF ReloadStat, Reloaded, Return
<1>12. CASE ReloadOpen
  BY <1>12 DEF ReloadOpen, Reloaded, Return
<1>13. CASE UNCHANGED vars
  BY <1>13 DEF vars
<1> QED
  BY <1>1, <1>2, <1>3, <1>4, <1>5, <1>6, <1>7, <1>8, <1>9, <1>10, <1>11,
     <1>12, <1>13 DEF Next

\* Over SFTP, where reads go through a handle, a retry of a save that failed
\* after its rename stores every edit once.
THEOREM RetrySafe == ASSUME ~ReadsByPath PROVE Spec => []AppliedOnce
<1>1. Init => TypeInv /\ EditsInv /\ OnceInv
  <2>1. Init => EditsInv
    BY DEF Init, EditsInv
  <2>2. Init => OnceInv
    BY DEF Init, OnceInv, Empty, Marks
  <2> QED
    BY <2>1, <2>2, TypeInit
<1>2. (TypeInv /\ EditsInv /\ OnceInv) /\ [Next]_vars =>
         (TypeInv /\ EditsInv /\ OnceInv)'
  BY TypeStep, EditsStep, OnceStep
<1>3. TypeInv /\ EditsInv /\ OnceInv => AppliedOnce
  BY DEF OnceInv, AppliedOnce
<1> QED
  BY <1>1, <1>2, <1>3, PTL DEF Spec
===============================================================================
