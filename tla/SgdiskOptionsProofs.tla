------------------------- MODULE SgdiskOptionsProofs -------------------------
(***************************************************************************)
(* SgdiskOptions for every disk, list of options and number of runs.       *)
(*                                                                         *)
(* AskedInv is about the flags, TypeInv adds the types of the tables, of   *)
(* the MBRs and of the ranges to wipe, WipedInv and MatchesInv build on    *)
(* it: what waits to be wiped is the new partitions, and what an MBR, on   *)
(* the disk, in a backup or in memory, has besides EE is in the GPT there. *)
(* OffInv, at the end, says of the same three that partitions do not       *)
(* overlap and that EE entries keep off what is not theirs.                *)
(***************************************************************************)
EXTENDS SgdiskOptions, FreeSpaceProofs

-----------------------------------------------------------------------------
(* What a run may write.                                                   *)

Flags == [saveData: BOOLEAN, neverSaveData: BOOLEAN, saveNonGPT: BOOLEAN,
          pretend: BOOLEAN, wipe: BOOLEAN]
AuxFields == {"created", "moved", "failed", "asked", "nonGpt"}

\* How the flags that DoOptions() ends with remember what the options asked for:
\* a failure outlasts every later option that asks for a save, -P outlasts -m's
\* use of the same flag, and -m alone does not make an MBR disk one to convert.
FlagsFollow ==
  /\ aux.failed => flags.neverSaveData
  /\ "P" \in aux.asked => flags.pretend
  /\ aux.nonGpt /\ aux.asked = {} => ~flags.saveNonGPT

AskedInv ==
  /\ pc \in {"idle", "options", "refused", "wipe", "save", "done"}
  /\ flags \in Flags
  /\ DOMAIN aux = AuxFields
  /\ aux.asked \subseteq {"P", "g", "z"}
  /\ pc \notin {"idle", "done"} => FlagsFollow
  /\ pc \in {"wipe", "save"} => Saves

LEMMA AuxExcept ==
  ASSUME NEW a, DOMAIN a = AuxFields, NEW f \in AuxFields, NEW v
  PROVE  LET b == [a EXCEPT ![f] = v]
         IN  /\ DOMAIN b = AuxFields /\ b[f] = v
             /\ \A x \in AuxFields \ {f} : b[x] = a[x]
OBVIOUS

\* The options that only add to what will be saved.
LEMMA WillSaveFollows ==
  ASSUME flags \in Flags, FlagsFollow, flags' \in {flags, [flags EXCEPT !.saveData = TRUE]},
         aux'.failed = aux.failed, aux'.asked = aux.asked, aux'.nonGpt = aux.nonGpt
  PROVE  flags' \in Flags /\ FlagsFollow'
<1> DEFINE f == [flags EXCEPT !.saveData = TRUE]
<1>1. /\ f \in Flags /\ f.neverSaveData = flags.neverSaveData
      /\ f.saveNonGPT = flags.saveNonGPT /\ f.pretend = flags.pretend
  BY Zenon DEF Flags
<1> HIDE DEF f
<1>2. CASE flags' = flags
  BY <1>2, Zenon DEF FlagsFollow
<1>3. CASE flags' = f
  BY <1>1, <1>3, Zenon DEF FlagsFollow
<1> QED BY <1>2, <1>3 DEF f

LEMMA FailsFollows ==
  ASSUME AskedInv, FlagsFollow, Fails
  PROVE  /\ flags' \in Flags /\ FlagsFollow'
         /\ DOMAIN aux' = AuxFields
         /\ aux'.asked = aux.asked
<1>1. /\ flags' \in Flags /\ flags'.neverSaveData = TRUE
      /\ flags'.saveNonGPT = flags.saveNonGPT /\ flags'.pretend = flags.pretend
  <2>1. flags \in Flags /\ flags' = [flags EXCEPT !.neverSaveData = TRUE]
    BY DEF Fails, AskedInv
  <2> QED BY <2>1, Zenon DEF Flags
<1>2. aux' = [aux EXCEPT !["failed"] = TRUE]
  BY DEF Fails
<1>3. /\ DOMAIN aux' = AuxFields
      /\ aux'.asked = aux.asked /\ aux'.nonGpt = aux.nonGpt
  BY <1>2, AuxExcept DEF AskedInv, AuxFields
<1> QED BY <1>1, <1>3, Zenon DEF FlagsFollow

LEMMA CreateFollows ==
  ASSUME AskedInv, FlagsFollow, NEW n, NEW start, NEW end, CreatePartition(n, start, end)
  PROVE  /\ flags' \in Flags /\ FlagsFollow' /\ disk' = disk
         /\ DOMAIN aux' = AuxFields
         /\ aux'.asked = aux.asked
<1> DEFINE part == [first |-> Align(Space, start), last |-> end]
<1>1. CASE MayCreate(n, part.first, end)
  <2>1. PICK c, m : flags' = [flags EXCEPT !.saveData = TRUE]
                    /\ aux' = [aux EXCEPT !.created = c, !.moved = m] /\ disk' = disk
    BY <1>1 DEF CreatePartition, WillSave
  <2>2. /\ DOMAIN aux' = AuxFields
        /\ \A x \in AuxFields \ {"created", "moved"} : aux'[x] = aux[x]
    BY <2>1 DEF AskedInv
  <2>3. aux'.failed = aux.failed /\ aux'.asked = aux.asked /\ aux'.nonGpt = aux.nonGpt
    BY <2>2 DEF AuxFields
  <2> QED BY <2>1, <2>2, <2>3, WillSaveFollows DEF AskedInv
<1>2. CASE ~MayCreate(n, part.first, end)
  BY <1>2, FailsFollows DEF CreatePartition, Fails
<1> QED BY <1>1, <1>2

\* What an option keeps: its run goes on, -P is never taken back, and it writes
\* to the disk only without -P.
OptionFollows ==
  /\ pc \in {"options", "refused"} /\ pc' = pc
  /\ flags' \in Flags /\ FlagsFollow'
  /\ DOMAIN aux' = AuxFields /\ aux'.asked \subseteq {"P", "g", "z"}
  /\ disk' # disk => ~flags.pretend /\ ("P" \in aux'.asked => "P" \in aux.asked)
  /\ zeroed' = zeroed

LEMMA AskedOptions ==
  ASSUME AskedInv, TakeOption
  PROVE  OptionFollows
<1>1. pc \in {"options", "refused"} /\ pc' = pc /\ FlagsFollow /\ flags \in Flags
      /\ DOMAIN aux = AuxFields /\ aux.asked \subseteq {"P", "g", "z"} /\ zeroed' = zeroed
  <2>1. pc \in {"options", "refused"} /\ pc' = pc /\ zeroed' = zeroed
    BY DEF TakeOption, OptNew, OptLargest, OptDelete, OptTranspose, OptEdit, OptTouch,
           OptAlignment, OptMbrToGpt, OptHybrid, OptGptToMbr, OptClear, OptBackup,
           OptLoadBackup, OptZap, OptReplicate, OptAttributes, Option, OptionWith, AnyOption
  <2> QED BY <2>1 DEF AskedInv
\* The disk stays, and the flags and what happened change as WillSave or Fails says.
<1>2. ASSUME Fails PROVE OptionFollows
  <2>1. disk' = disk
    BY <1>2 DEF Fails
  <2> QED BY <1>1, <1>2, <2>1, FailsFollows DEF OptionFollows
<1>3. ASSUME flags' \in {flags, [flags EXCEPT !.saveData = TRUE]}, disk' = disk, DOMAIN aux' = AuxFields,
             aux'.failed = aux.failed, aux'.asked = aux.asked, aux'.nonGpt = aux.nonGpt
      PROVE  OptionFollows
  BY <1>1, <1>3, WillSaveFollows DEF OptionFollows
<1>4. ASSUME NEW n, NEW start, NEW end, CreatePartition(n, start, end) PROVE OptionFollows
  BY <1>1, <1>4, CreateFollows DEF OptionFollows
<1>5. CASE OptNew
  BY <1>4, <1>5 DEF OptNew
<1>6. CASE OptLargest
  BY <1>4, <1>6 DEF OptLargest
<1>7. CASE OptDelete
  <2>1. ASSUME NEW c, aux' = [aux EXCEPT !.created = c]
        PROVE  DOMAIN aux' = AuxFields /\ aux'.failed = aux.failed /\ aux'.asked = aux.asked
               /\ aux'.nonGpt = aux.nonGpt
    BY <1>1, <2>1 DEF AuxFields
  <2> QED BY <1>2, <1>3, <1>7, <2>1 DEF OptDelete, WillSave
<1>8. CASE OptTranspose \/ OptEdit \/ OptTouch
  BY <1>1, <1>2, <1>3, <1>8 DEF OptTranspose, OptEdit, OptTouch, WillSave
<1>9. CASE OptAlignment \/ OptBackup \/ OptReplicate \/ OptHybrid
  BY <1>1, <1>3, <1>9 DEF OptAlignment, OptBackup, OptReplicate, OptHybrid, WillSave
<1>10. CASE OptAttributes
  <2>1. /\ DOMAIN aux' = AuxFields /\ aux'.asked = aux.asked /\ aux'.nonGpt = aux.nonGpt
        /\ aux'.failed = (aux.failed \/ flags'.neverSaveData) /\ disk' = disk
    BY <1>1, <1>10 DEF OptAttributes, AuxFields
  <2>2. flags' = flags \/ flags' = [flags EXCEPT !.saveData = TRUE]
        \/ flags' = [flags EXCEPT !.saveData = FALSE, !.neverSaveData = TRUE]
    BY <1>10 DEF OptAttributes
  <2>3. /\ flags' \in Flags /\ (flags.neverSaveData => flags'.neverSaveData)
        /\ flags'.saveNonGPT = flags.saveNonGPT /\ flags'.pretend = flags.pretend
    <3>1. CASE flags' = flags
      BY <1>1, <3>1, Zenon
    <3>2. CASE flags' = [flags EXCEPT !.saveData = TRUE]
      BY <1>1, <3>2, Zenon DEF Flags
    <3>3. CASE flags' = [flags EXCEPT !.saveData = FALSE, !.neverSaveData = TRUE]
      BY <1>1, <3>3, Zenon DEF Flags
    <3> QED BY <2>2, <3>1, <3>2, <3>3
  <2>4. FlagsFollow'
    BY <1>1, <2>1, <2>3, Zenon DEF FlagsFollow
  <2> QED BY <1>1, <2>1, <2>3, <2>4 DEF OptionFollows
<1>11. CASE OptMbrToGpt
  <2>1. /\ DOMAIN aux' = AuxFields /\ aux'.asked = aux.asked \union {"g"}
        /\ aux'.nonGpt = aux.nonGpt /\ aux'.failed = aux.failed /\ disk' = disk
    BY <1>1, <1>11 DEF OptMbrToGpt, AuxFields
  <2>2. flags' = [flags EXCEPT !.saveData = TRUE, !.saveNonGPT = TRUE]
    BY <1>11 DEF OptMbrToGpt
  <2>3. /\ flags' \in Flags /\ flags'.neverSaveData = flags.neverSaveData
        /\ flags'.saveNonGPT = TRUE /\ flags'.pretend = flags.pretend
    BY <1>1, <2>2, Zenon DEF Flags
  <2>4. "P" \in aux'.asked => "P" \in aux.asked
    BY <2>1
  <2>5. aux'.asked # {}
    BY <2>1
  <2>6. FlagsFollow'
    BY <1>1, <2>1, <2>3, <2>4, <2>5, Zenon DEF FlagsFollow
  <2> QED BY <1>1, <2>1, <2>3, <2>6 DEF OptionFollows
<1>12. CASE OptGptToMbr
  <2>1. PICK ok \in BOOLEAN :
          /\ disk' # disk => ~flags.pretend
          /\ IF ok THEN flags' = [flags EXCEPT !.saveNonGPT = FALSE, !.pretend = TRUE, !.saveData = FALSE]
             ELSE flags' = flags
          /\ aux' = aux
    <3>1. PICK failures \in {0, 1}, list \in Lists :
            LET built == Mbr!BuildMBR(mem.parts, list, FALSE, FALSE)
                write == built.ok /\ ~flags.pretend
            IN  /\ disk' = IF write /\ failures = 0
                           THEN [gpt |-> "none", parts |-> Blank, boot |-> TRUE, mbr |-> built.mbr] ELSE disk
                /\ IF built.ok
                   THEN flags' = [flags EXCEPT !.saveNonGPT = FALSE, !.pretend = TRUE, !.saveData = FALSE]
                   ELSE flags' = flags
      BY <1>12 DEF OptGptToMbr
    <3>2. aux' = aux
      BY <1>12 DEF OptGptToMbr
    <3> DEFINE ok == Mbr!BuildMBR(mem.parts, list, FALSE, FALSE).ok
    <3>3. CASE ok
      <4>1. /\ disk' # disk => ~flags.pretend
            /\ flags' = [flags EXCEPT !.saveNonGPT = FALSE, !.pretend = TRUE, !.saveData = FALSE]
        BY <3>1, <3>3
      <4> QED BY <3>2, <4>1
    <3>4. CASE ~ok
      <4>1. disk' = disk /\ flags' = flags
        BY <3>1, <3>4
      <4> QED BY <3>2, <4>1
    <3> QED BY <3>3, <3>4
  <2>2. flags' \in Flags /\ FlagsFollow'
    <3>1. CASE flags' = flags
      BY <1>1, <2>1, <3>1, Zenon DEF FlagsFollow
    <3>2. CASE flags' = [flags EXCEPT !.saveNonGPT = FALSE, !.pretend = TRUE, !.saveData = FALSE]
      <4>1. /\ flags' \in Flags /\ flags'.neverSaveData = flags.neverSaveData
            /\ flags'.saveNonGPT = FALSE /\ flags'.pretend = TRUE
        BY <1>1, <3>2, Zenon DEF Flags
      <4> QED BY <1>1, <2>1, <4>1, Zenon DEF FlagsFollow
    <3> QED BY <2>1, <3>1, <3>2
  <2> QED BY <1>1, <2>1, <2>2 DEF OptionFollows
<1>13. CASE OptClear
  <2>1. /\ DOMAIN aux' = AuxFields /\ aux'.failed = aux.failed /\ aux'.asked = aux.asked
        /\ aux'.nonGpt = aux.nonGpt /\ disk' = disk
    BY <1>1, <1>13 DEF OptClear, AuxFields
  <2> QED BY <1>3, <1>13, <2>1 DEF OptClear, WillSave
<1>14. CASE OptLoadBackup
  <2> DEFINE gpt == backup.holds = "gpt"
  <2>1. /\ DOMAIN aux' = AuxFields /\ aux'.asked = aux.asked /\ aux'.nonGpt = aux.nonGpt
        /\ aux'.failed = (aux.failed \/ ~gpt) /\ disk' = disk
    BY <1>1, <1>14 DEF OptLoadBackup, AuxFields
  <2>2. flags' = [flags EXCEPT !.saveData = gpt, !.neverSaveData = flags.neverSaveData \/ ~gpt]
    BY <1>14 DEF OptLoadBackup, LoadBackupFile
  <2>3. /\ flags' \in Flags /\ (flags'.neverSaveData <=> flags.neverSaveData \/ ~gpt)
        /\ flags'.saveNonGPT = flags.saveNonGPT /\ flags'.pretend = flags.pretend
    <3>1. CASE gpt
      <4>1. flags' = [flags EXCEPT !.saveData = TRUE, !.neverSaveData = flags.neverSaveData]
        BY <1>1, <2>2, <3>1, Zenon DEF Flags
      <4> HIDE DEF gpt
      <4> QED BY <1>1, <3>1, <4>1, Zenon DEF Flags
    <3>2. CASE ~gpt
      <4>1. flags' = [flags EXCEPT !.saveData = FALSE, !.neverSaveData = TRUE]
        BY <1>1, <2>2, <3>2, Zenon DEF Flags
      <4> HIDE DEF gpt
      <4> QED BY <1>1, <3>2, <4>1, Zenon DEF Flags
    <3> QED BY <3>1, <3>2
  <2>4. FlagsFollow'
    <3> HIDE DEF gpt
    <3> QED BY <1>1, <2>1, <2>3, Zenon DEF FlagsFollow
  <2> QED BY <1>1, <2>1, <2>3, <2>4 DEF OptionFollows
<1>15. CASE OptZap
  <2>1. /\ DOMAIN aux' = AuxFields /\ aux'.asked = aux.asked \union {"z"}
        /\ aux'.nonGpt = aux.nonGpt /\ aux'.failed = aux.failed
        /\ disk' # disk => ~flags.pretend
    BY <1>1, <1>15 DEF OptZap, AuxFields
  <2>2. flags' = [flags EXCEPT !.saveNonGPT = TRUE, !.saveData = FALSE]
    BY <1>15 DEF OptZap
  <2>3. /\ flags' \in Flags /\ flags'.neverSaveData = flags.neverSaveData
        /\ flags'.saveNonGPT = TRUE /\ flags'.pretend = flags.pretend
    BY <1>1, <2>2, Zenon DEF Flags
  <2>4. "P" \in aux'.asked => "P" \in aux.asked
    BY <2>1
  <2>5. aux'.asked # {}
    BY <2>1
  <2>6. FlagsFollow'
    BY <1>1, <2>1, <2>3, <2>4, <2>5, Zenon DEF FlagsFollow
  <2> QED BY <1>1, <2>1, <2>3, <2>4, <2>6 DEF OptionFollows
<1> QED BY <1>5, <1>6, <1>7, <1>8, <1>9, <1>10, <1>11, <1>12, <1>13, <1>14, <1>15 DEF TakeOption

LEMMA AskedInductive ==
  ASSUME AskedInv, [Next]_vars
  PROVE  AskedInv'
<1>1. CASE Start
  <2> DEFINE mbr == WhichWasUsed = "mbr"
             abort == WhichWasUsed = "abort"
  <2>1. PICK pretend \in BOOLEAN, wipe \in BOOLEAN :
          /\ Run(pretend, wipe)
          /\ aux' = [NoAux EXCEPT !.asked = IF pretend THEN {"P"} ELSE {}, !.nonGpt = mbr]
    BY <1>1 DEF Start
  <2>2. /\ DOMAIN aux' = AuxFields /\ ~aux'.failed /\ aux'.nonGpt = mbr
        /\ aux'.asked = IF pretend THEN {"P"} ELSE {}
    BY <2>1 DEF NoAux, AuxFields
  <2>3. flags' = [saveData |-> FALSE, neverSaveData |-> FALSE, saveNonGPT |-> ~mbr,
                  pretend |-> pretend, wipe |-> wipe]
    BY <2>1 DEF Run, NoFlags
  <2>4. pc' \in {"options", "refused"}
    BY <2>1 DEF Run
  <2>5. /\ flags' \in Flags /\ flags'.pretend = pretend /\ (flags'.saveNonGPT <=> ~mbr)
    <3>1. CASE mbr
      <4>1. flags' = [saveData |-> FALSE, neverSaveData |-> FALSE, saveNonGPT |-> FALSE,
                      pretend |-> pretend, wipe |-> wipe]
        BY <2>3, <3>1
      <4> QED BY <3>1, <4>1, Zenon DEF Flags
    <3>2. CASE ~mbr
      <4>1. flags' = [saveData |-> FALSE, neverSaveData |-> FALSE, saveNonGPT |-> TRUE,
                      pretend |-> pretend, wipe |-> wipe]
        BY <2>3, <3>2
      <4> QED BY <3>2, <4>1, Zenon DEF Flags
    <3> QED BY <3>1, <3>2
  <2>6. FlagsFollow'
    <3>1. "P" \in aux'.asked => flags'.pretend
      BY <2>2, <2>5
    <3> QED BY <2>2, <2>5, <3>1, Zenon DEF FlagsFollow
  <2> QED BY <2>2, <2>4, <2>5, <2>6 DEF AskedInv
<1>2. CASE UnknownWipeMode \/ Exit
  <2>1. pc' \in {"idle", "done"} /\ flags' = NoFlags /\ aux' = NoAux
    BY <1>2 DEF UnknownWipeMode, Exit
  <2>2. NoFlags \in Flags
    BY Zenon DEF NoFlags, Flags
  <2>3. DOMAIN NoAux = AuxFields /\ NoAux.asked = {}
    BY DEF NoAux, AuxFields
  <2> QED BY <2>1, <2>2, <2>3 DEF AskedInv
<1>3. CASE TakeOption
  BY <1>3, AskedOptions DEF AskedInv, OptionFollows
<1>4. CASE EndOptions
  <2>1. /\ pc \in {"options", "refused"} /\ pc' \in {"done", "wipe", "save"}
        /\ ~Saves => pc' = "done"
        /\ flags' = flags /\ aux' = aux
    BY <1>4 DEF EndOptions
  <2>2. (Saves' <=> Saves) /\ (FlagsFollow' <=> FlagsFollow)
    BY <2>1, Zenon DEF Saves, FlagsFollow
  <2> QED BY <2>1, <2>2 DEF AskedInv
<1>5. CASE Wipe
  <2>1. pc = "wipe" /\ pc' = "save" /\ flags' = flags /\ aux' = aux
    BY <1>5 DEF Wipe
  <2>2. (Saves' <=> Saves) /\ (FlagsFollow' <=> FlagsFollow)
    BY <2>1, Zenon DEF Saves, FlagsFollow
  <2> QED BY <2>1, <2>2 DEF AskedInv
<1>6. CASE Save \/ SaveFails
  <2>1. pc' = "done" /\ flags' = flags /\ aux' = aux
    BY <1>6 DEF Save, SaveFails
  <2> QED BY <2>1 DEF AskedInv
<1>7. CASE GdiskHybrid \/ UNCHANGED vars
  <2>1. pc' = pc /\ flags' = flags /\ aux' = aux
    BY <1>7 DEF GdiskHybrid, vars
  <2>2. (Saves' <=> Saves) /\ (FlagsFollow' <=> FlagsFollow)
    BY <2>1, Zenon DEF Saves, FlagsFollow
  <2> QED BY <2>1, <2>2 DEF AskedInv
<1> QED BY <1>1, <1>2, <1>3, <1>4, <1>5, <1>6, <1>7 DEF Next

\* At any moment of any run: no disk is written or wiped under -P, and the save
\* and the wiping at the end of DoOptions() never follow an option that failed,
\* nor replace an MBR disk's table that neither -g nor -z gave up.
THEOREM WritesAreAskedFor == Spec => OnlyWhatWasAskedIsWritten
<1> DEFINE Asked ==
      (disk' # disk \/ zeroed' \ zeroed # {}) /\ pc # "idle" =>
        /\ "P" \notin aux.asked
        /\ pc \in {"wipe", "save"} => ~aux.failed /\ (aux.nonGpt => aux.asked # {})
<1>1. Init => AskedInv
  <2> SUFFICES ASSUME Init PROVE AskedInv
    OBVIOUS
  <2>1. pc = "idle" /\ flags = NoFlags /\ aux = NoAux
    BY DEF Init
  <2>2. NoFlags \in Flags
    BY Zenon DEF NoFlags, Flags
  <2>3. DOMAIN NoAux = AuxFields /\ NoAux.asked = {}
    BY DEF NoAux, AuxFields
  <2> QED BY <2>1, <2>2, <2>3 DEF AskedInv
<1>2. AskedInv /\ [Next]_vars => AskedInv'
  BY AskedInductive
<1>3. AskedInv /\ [Next]_vars => Asked
  <2> SUFFICES ASSUME AskedInv, [Next]_vars, pc # "idle",
                      disk' # disk \/ zeroed' \ zeroed # {}
               PROVE  /\ "P" \notin aux.asked
                      /\ pc \in {"wipe", "save"} => ~aux.failed /\ (aux.nonGpt => aux.asked # {})
    OBVIOUS
  <2>1. CASE TakeOption
    BY <2>1, AskedOptions DEF AskedInv, OptionFollows, FlagsFollow
  <2>2. CASE Wipe \/ Save \/ SaveFails
    <3>1. pc \in {"wipe", "save"}
      BY <2>2 DEF Wipe, Save, SaveFails
    <3>2. ~flags.neverSaveData /\ flags.saveNonGPT /\ ~flags.pretend /\ FlagsFollow
      BY <3>1 DEF AskedInv, Saves
    <3> QED BY <3>1, <3>2 DEF FlagsFollow
  <2>3. CASE Start \/ UnknownWipeMode \/ EndOptions \/ Exit \/ GdiskHybrid \/ UNCHANGED vars
    <3>1. CASE Start \/ UnknownWipeMode \/ GdiskHybrid
      BY <3>1 DEF Start, UnknownWipeMode, GdiskHybrid
    <3>2. CASE EndOptions \/ Exit \/ UNCHANGED vars
      BY <3>2 DEF EndOptions, Exit, vars
    <3> QED BY <2>3, <3>1, <3>2
  <2> QED BY <2>1, <2>2, <2>3 DEF Next
<1>4. Spec => [][Asked]_vars
  BY <1>1, <1>2, <1>3, PTL DEF Spec
<1> QED BY <1>4 DEF OnlyWhatWasAskedIsWritten

-----------------------------------------------------------------------------
(* The loops over the entries of an MBR, as the values from one entry to the *)
(* next.                                                                     *)

LEMMA StretchLoop ==
  ASSUME NEW m
  PROVE  \E f : /\ f[0] = m
                /\ \A k \in 1..4 : f[k] = Mbr!StretchEE(f[k - 1], k - 1)
                /\ Mbr!Loop(Mbr!StretchEE, m, Mbr!FirstFour) = f[4]
<1> DEFINE N == 4
           order == Mbr!FirstFour
           Step(v, i) == Mbr!StretchEE(v, i)
           Is(f, n) == f = [k \in 0..n |->
                         IF k = 0 THEN m
                         ELSE CHOOSE y \in {Step(v, order[k]) : v \in {f[k - 1]}} : TRUE]
           S == {n \in 0..N : \E f : Is(f, n)}
<1>0. N \in Nat /\ Len(order) = N
  BY DEF Mbr!FirstFour
<1>1. 0 \in S
  <2> DEFINE f == [k \in 0..0 |-> m]
  <2>1. Is(f, 0)
    OBVIOUS
  <2>2. \E f_ : Is(f_, 0)
    <3> HIDE DEF f, Is
    <3> QED BY <2>1
  <2>3. 0 \in 0..N
    BY <1>0
  <2> HIDE DEF Is, N
  <2> QED BY <2>2, <2>3, Zenon
<1>2. ASSUME NEW n \in 0..N - 1, n \in S PROVE n + 1 \in S
  <2>1. PICK f : Is(f, n)
    BY <1>2
  <2> DEFINE Next1(x, k) == CHOOSE y \in {Step(v, order[k]) : v \in {x}} : TRUE
             h == [k \in 0..n + 1 |-> IF k = n + 1 THEN Next1(f[n], n + 1) ELSE f[k]]
  <2>a. N \in Nat /\ n \in Nat
    BY <1>0, <1>2
  <2>2. ASSUME NEW k \in 0..n + 1
        PROVE  h[k] = IF k = 0 THEN m ELSE Next1(h[k - 1], k)
    <3> HIDE DEF Step, order
    <3>1. CASE k = n + 1
      <4>1. k # 0 /\ k - 1 = n /\ n \in 0..n + 1 /\ n # n + 1
        BY <2>a, <3>1
      <4> HIDE DEF Next1
      <4>2. h[k] = Next1(f[n], k) /\ h[n] = f[n]
        BY <3>1, <4>1
      <4> HIDE DEF h
      <4> QED BY <4>1, <4>2
    <3>2. CASE k # n + 1
      <4>1. k \in 0..n /\ h[k] = f[k]
        BY <2>a, <3>2
      <4>2. f[k] = IF k = 0 THEN m ELSE Next1(f[k - 1], k)
        BY <2>1, <4>1
      <4>3. k # 0 => h[k - 1] = f[k - 1]
        BY <2>a, <4>1
      <4> HIDE DEF h, Next1
      <4> QED BY <4>1, <4>2, <4>3
    <3> QED BY <3>1, <3>2
  <2>3. h = [k \in 0..n + 1 |-> h[k]]
    OBVIOUS
  <2>4. Is(h, n + 1)
    <3> HIDE DEF h, Step, order
    <3> QED BY <2>2, <2>3
  <2>5. n + 1 \in 0..N
    BY <2>a
  <2>6. \E f_ : Is(f_, n + 1)
    <3> HIDE DEF h, Is
    <3> QED BY <2>4
  <2> HIDE DEF Is, N
  <2> QED BY <2>5, <2>6, Zenon
<1>3. 0..N \subseteq S
  <2> HIDE DEF S, N
  <2> QED BY <1>0, <1>1, <1>2, BoundedInduction
<1>4. N \in S
  <2> HIDE DEF S, N
  <2> QED BY <1>0, <1>3
<1> DEFINE f == CHOOSE f : Is(f, N)
<1>5. Is(f, N)
  <2> HIDE DEF Is
  <2> QED BY <1>4
<1>6. Mbr!Loop(Mbr!StretchEE, m, Mbr!FirstFour) = f[N]
  BY <1>0 DEF Mbr!Loop
<1> HIDE DEF f, S
<1>7. f[0] = m
  <2> HIDE DEF N, Step, order
  <2> QED BY <1>0, <1>5
<1>8. ASSUME NEW k \in 1..N PROVE f[k] = Step(f[k - 1], order[k])
  <2> HIDE DEF N, Step, order
  <2>1. k # 0 /\ k \in 0..N
    BY <1>0
  <2>2. f[k] = CHOOSE y \in {Step(v, order[k]) : v \in {f[k - 1]}} : TRUE
    BY <1>5, <2>1
  <2>3. {Step(v, order[k]) : v \in {f[k - 1]}} = {Step(f[k - 1], order[k])}
    OBVIOUS
  <2> QED BY <2>2, <2>3
<1>9. ASSUME NEW k \in 1..N PROVE f[k] = Mbr!StretchEE(f[k - 1], k - 1)
  BY <1>8, <1>9 DEF Mbr!FirstFour
<1> HIDE DEF Step, order, Is
<1> QED BY <1>6, <1>7, <1>9

DeleteStep(y, p, i) ==
  LET deleted == [y EXCEPT !.mbr[i] = Mbr!EmptyPart]
  IN  IF /\ y.mbr[i].type # "ee" /\ p.first < Max32 /\ Mbr!LengthOf(p) < Max32
         /\ y.mbr[i].start = p.first /\ y.mbr[i].len = Mbr!LengthOf(p)
      THEN IF y.state = "hybrid" THEN Mbr!OptimizeEESize(deleted) ELSE deleted
      ELSE y

LEMMA DeleteLoop ==
  ASSUME NEW x, NEW p
  PROVE  \E f : /\ f[0] = x
                /\ \A k \in 1..MaxParts : f[k] = DeleteStep(f[k - 1], p, k - 1)
                /\ Mbr!DeleteByLocation(x, p) = f[MaxParts]
<1> DEFINE N == MaxParts
           order == Mbr!Upward
           Step(v, i) == DeleteStep(v, p, i)
           Is(f, n) == f = [k \in 0..n |->
                         IF k = 0 THEN x
                         ELSE CHOOSE y \in {Step(v, order[k]) : v \in {f[k - 1]}} : TRUE]
           S == {n \in 0..N : \E f : Is(f, n)}
<1>0. N \in Nat /\ Len(order) = N
  BY OptionsAssumption DEF Mbr!Upward, Mbr!LayoutAssumption
<1>1. 0 \in S
  <2> DEFINE f == [k \in 0..0 |-> x]
  <2>1. Is(f, 0)
    OBVIOUS
  <2>2. \E f_ : Is(f_, 0)
    <3> HIDE DEF f, Is
    <3> QED BY <2>1
  <2>3. 0 \in 0..N
    BY <1>0
  <2> HIDE DEF Is, N
  <2> QED BY <2>2, <2>3, Zenon
<1>2. ASSUME NEW n \in 0..N - 1, n \in S PROVE n + 1 \in S
  <2>1. PICK f : Is(f, n)
    BY <1>2
  <2> DEFINE Next1(u, k) == CHOOSE y \in {Step(v, order[k]) : v \in {u}} : TRUE
             h == [k \in 0..n + 1 |-> IF k = n + 1 THEN Next1(f[n], n + 1) ELSE f[k]]
  <2>a. N \in Nat /\ n \in Nat
    BY <1>0, <1>2
  <2>2. ASSUME NEW k \in 0..n + 1
        PROVE  h[k] = IF k = 0 THEN x ELSE Next1(h[k - 1], k)
    <3> HIDE DEF Step, order
    <3>1. CASE k = n + 1
      <4>1. k # 0 /\ k - 1 = n /\ n \in 0..n + 1 /\ n # n + 1
        BY <2>a, <3>1
      <4> HIDE DEF Next1
      <4>2. h[k] = Next1(f[n], k) /\ h[n] = f[n]
        BY <3>1, <4>1
      <4> HIDE DEF h
      <4> QED BY <4>1, <4>2
    <3>2. CASE k # n + 1
      <4>1. k \in 0..n /\ h[k] = f[k]
        BY <2>a, <3>2
      <4>2. f[k] = IF k = 0 THEN x ELSE Next1(f[k - 1], k)
        BY <2>1, <4>1
      <4>3. k # 0 => h[k - 1] = f[k - 1]
        BY <2>a, <4>1
      <4> HIDE DEF h, Next1
      <4> QED BY <4>1, <4>2, <4>3
    <3> QED BY <3>1, <3>2
  <2>3. h = [k \in 0..n + 1 |-> h[k]]
    OBVIOUS
  <2>4. Is(h, n + 1)
    <3> HIDE DEF h, Step, order
    <3> QED BY <2>2, <2>3
  <2>5. n + 1 \in 0..N
    BY <2>a
  <2>6. \E f_ : Is(f_, n + 1)
    <3> HIDE DEF h, Is
    <3> QED BY <2>4
  <2> HIDE DEF Is, N
  <2> QED BY <2>5, <2>6, Zenon
<1>3. 0..N \subseteq S
  <2> HIDE DEF S, N
  <2> QED BY <1>0, <1>1, <1>2, BoundedInduction
<1>4. N \in S
  <2> HIDE DEF S, N
  <2> QED BY <1>0, <1>3
<1> DEFINE f == CHOOSE f : Is(f, N)
<1>5. Is(f, N)
  <2> HIDE DEF Is
  <2> QED BY <1>4
<1>6. Mbr!DeleteByLocation(x, p) = f[N]
  BY <1>0 DEF Mbr!Loop, Mbr!DeleteByLocation, DeleteStep
<1> HIDE DEF f, S
<1>7. f[0] = x
  <2> HIDE DEF N, Step, order
  <2> QED BY <1>0, <1>5
<1>8. ASSUME NEW k \in 1..N PROVE f[k] = Step(f[k - 1], order[k])
  <2> HIDE DEF N, Step, order
  <2>1. k # 0 /\ k \in 0..N
    BY <1>0
  <2>2. f[k] = CHOOSE y \in {Step(v, order[k]) : v \in {f[k - 1]}} : TRUE
    BY <1>5, <2>1
  <2>3. {Step(v, order[k]) : v \in {f[k - 1]}} = {Step(f[k - 1], order[k])}
    OBVIOUS
  <2> QED BY <2>2, <2>3
<1>9. ASSUME NEW k \in 1..N PROVE f[k] = DeleteStep(f[k - 1], p, k - 1)
  BY <1>8, <1>9, OptionsAssumption DEF Mbr!Upward, Mbr!LayoutAssumption
<1> HIDE DEF Step, order, Is
<1> QED BY <1>6, <1>7, <1>9

ConvertStep(parts, list, offset, x, k) ==
  LET p == parts[list[k]]
      y == IF Mbr!UsedPart(parts, list[k]) /\ Mbr!IsSizedForMBR(p) # "BAD"
           THEN [x EXCEPT !.num = k - 1 + offset, !.part = Mbr!AsMBR(p), !.converted = @ + 1] ELSE x
  IN  [y EXCEPT !.mbr[y.num] = y.part]
NoneConverted == [mbr |-> Mbr!EmptyMBR, num |-> 0, part |-> Mbr!EmptyPart, converted |-> 0]
ConvertAll(parts, list, offset) ==
  LET Convert(x, k) == ConvertStep(parts, list, offset, x, k)
  IN  Mbr!Loop(Convert, NoneConverted, [k \in DOMAIN list |-> k])

LEMMA ConvertLoop ==
  ASSUME NEW parts, NEW list \in Seq(Nat), NEW offset
  PROVE  \E f : /\ f[0] = NoneConverted
                /\ \A k \in 1..Len(list) : f[k] = ConvertStep(parts, list, offset, f[k - 1], k)
                /\ ConvertAll(parts, list, offset) = f[Len(list)]
<1> DEFINE N == Len(list)
           order == [k \in DOMAIN list |-> k]
           Step(v, i) == ConvertStep(parts, list, offset, v, i)
           Is(f, n) == f = [k \in 0..n |->
                         IF k = 0 THEN NoneConverted
                         ELSE CHOOSE y \in {Step(v, order[k]) : v \in {f[k - 1]}} : TRUE]
           S == {n \in 0..N : \E f : Is(f, n)}
<1>0. N \in Nat /\ Len(order) = N
  OBVIOUS
<1>1. 0 \in S
  <2> DEFINE f == [k \in 0..0 |-> NoneConverted]
  <2>1. Is(f, 0)
    OBVIOUS
  <2>2. \E f_ : Is(f_, 0)
    <3> HIDE DEF f, Is
    <3> QED BY <2>1
  <2>3. 0 \in 0..N
    BY <1>0
  <2> HIDE DEF Is, N
  <2> QED BY <2>2, <2>3, Zenon
<1>2. ASSUME NEW n \in 0..N - 1, n \in S PROVE n + 1 \in S
  <2>1. PICK f : Is(f, n)
    BY <1>2
  <2> DEFINE Next1(x, k) == CHOOSE y \in {Step(v, order[k]) : v \in {x}} : TRUE
             h == [k \in 0..n + 1 |-> IF k = n + 1 THEN Next1(f[n], n + 1) ELSE f[k]]
  <2>a. N \in Nat /\ n \in Nat
    BY <1>0, <1>2
  <2>2. ASSUME NEW k \in 0..n + 1
        PROVE  h[k] = IF k = 0 THEN NoneConverted ELSE Next1(h[k - 1], k)
    <3> HIDE DEF Step, order
    <3>1. CASE k = n + 1
      <4>1. k # 0 /\ k - 1 = n /\ n \in 0..n + 1 /\ n # n + 1
        BY <2>a, <3>1
      <4> HIDE DEF Next1
      <4>2. h[k] = Next1(f[n], k) /\ h[n] = f[n]
        BY <3>1, <4>1
      <4> HIDE DEF h
      <4> QED BY <4>1, <4>2
    <3>2. CASE k # n + 1
      <4>1. k \in 0..n /\ h[k] = f[k]
        BY <2>a, <3>2
      <4>2. f[k] = IF k = 0 THEN NoneConverted ELSE Next1(f[k - 1], k)
        BY <2>1, <4>1
      <4>3. k # 0 => h[k - 1] = f[k - 1]
        BY <2>a, <4>1
      <4> HIDE DEF h, Next1
      <4> QED BY <4>1, <4>2, <4>3
    <3> QED BY <3>1, <3>2
  <2>3. h = [k \in 0..n + 1 |-> h[k]]
    OBVIOUS
  <2>4. Is(h, n + 1)
    <3> HIDE DEF h, Step, order
    <3> QED BY <2>2, <2>3
  <2>5. n + 1 \in 0..N
    BY <2>a
  <2>6. \E f_ : Is(f_, n + 1)
    <3> HIDE DEF h, Is
    <3> QED BY <2>4
  <2> HIDE DEF Is, N
  <2> QED BY <2>5, <2>6, Zenon
<1>3. 0..N \subseteq S
  <2> HIDE DEF S, N
  <2> QED BY <1>0, <1>1, <1>2, BoundedInduction
<1>4. N \in S
  <2> HIDE DEF S, N
  <2> QED BY <1>0, <1>3
<1> DEFINE f == CHOOSE f : Is(f, N)
<1>5. Is(f, N)
  <2> HIDE DEF Is
  <2> QED BY <1>4
<1>6. ConvertAll(parts, list, offset) = f[N]
  BY <1>0 DEF Mbr!Loop, ConvertAll
<1> HIDE DEF f, S
<1>7. f[0] = NoneConverted
  <2> HIDE DEF N, Step, order
  <2> QED BY <1>0, <1>5
<1>8. ASSUME NEW k \in 1..N PROVE f[k] = Step(f[k - 1], order[k])
  <2> HIDE DEF N, Step, order
  <2>1. k # 0 /\ k \in 0..N
    BY <1>0
  <2>2. f[k] = CHOOSE y \in {Step(v, order[k]) : v \in {f[k - 1]}} : TRUE
    BY <1>5, <2>1
  <2>3. {Step(v, order[k]) : v \in {f[k - 1]}} = {Step(f[k - 1], order[k])}
    OBVIOUS
  <2> QED BY <2>2, <2>3
<1>9. ASSUME NEW k \in 1..N PROVE f[k] = ConvertStep(parts, list, offset, f[k - 1], k)
  <2>1. order[k] = k
    OBVIOUS
  <2> HIDE DEF N, order
  <2> QED BY <1>8, <1>9, <2>1
<1> HIDE DEF Step, order, Is
<1> QED BY <1>6, <1>7, <1>9

-----------------------------------------------------------------------------
(* Types.                                                                  *)

EntryFields == {"start", "len", "as", "type"}
States == {"gpt", "hybrid", "mbr"}

\* The numbers of an entry of type EE are left open: nothing reads them but
\* OptimizeEESize(), and what it makes of them changes no other entry.
EntryOK(e) ==
  /\ DOMAIN e = EntryFields /\ e.type \in {"none", "ee", "ext", "data"}
  /\ e.type = "data" => e.start \in Nat /\ e.len \in Nat /\ e.start + e.len < Max32
MbrOK(m) == DOMAIN m = Mbr!Slots /\ \A i \in Mbr!Slots : EntryOK(m[i])

NoData(m) == \A i \in 0 .. 3 : m[i].type # "data"

Kept(m, n) == MbrOK(n) /\ \A i \in Mbr!Slots : n[i].type = "data" => n[i] = m[i]

DiskOK ==
  /\ DOMAIN disk = {"gpt", "parts", "boot", "mbr"}
  /\ disk.gpt \in {"good", "none", "torn"} /\ disk.boot \in BOOLEAN
  /\ disk.parts \in Partitions /\ MbrOK(disk.mbr)
BackupOK ==
  /\ backup.holds \in {"none", "junk", "gpt"}
  /\ backup.parts \in Partitions /\ MbrOK(backup.mbr)
MemOK ==
  /\ DOMAIN mem = {"parts", "align", "alignEnd", "mbr", "state"}
  /\ mem.parts \in Partitions /\ mem.align \in Nat \ {0} /\ MbrOK(mem.mbr)
  /\ mem.state \in States /\ (mem.state = "gpt" => NoData(mem.mbr))
WiperOK == wiper \in Seq(AnyPart) /\ \A i \in 1 .. Len(wiper) : wiper[i].last < DiskSize

LeftOK == DOMAIN left = {"runs", "options", "faults"} /\ left.faults \in 0 .. Faults
RetvalOK == retval \in {0, 1, 2, 3, 4, 8}

TypeInv ==
  /\ AskedInv /\ DiskOK /\ BackupOK /\ MemOK /\ WiperOK /\ LeftOK /\ RetvalOK
  /\ zeroed \subseteq 0 .. DiskSize - 1

LEMMA Widths ==
  /\ MaxParts \in Nat /\ MaxParts > 4 /\ Max32 \in Nat /\ Max32 > 3
  /\ DiskSize \in Nat /\ DiskSize <= Max32 /\ FirstUsable \in Nat /\ FirstUsable >= 3
  /\ LastUsable \in Nat /\ LastUsable >= FirstUsable /\ LastUsable + 3 <= DiskSize
  /\ Mbr!Slots = 0 .. MaxParts - 1
<1>1. /\ MaxParts \in Nat /\ MaxParts > 4 /\ Max32 \in Nat /\ DiskSize \in 2 .. Max32
      /\ FirstUsable \in 3 .. DiskSize \div 2
  BY OptionsAssumption DEF Mbr!LayoutAssumption
<1>2. DiskSize \in Nat /\ FirstUsable \in Nat /\ 2 * FirstUsable <= DiskSize
  BY <1>1
<1> QED BY <1>1, <1>2 DEF LastUsable, Mbr!Slots

LEMMA KeptTrans ==
  ASSUME NEW a, NEW b, NEW c, Kept(a, b), Kept(b, c)
  PROVE  Kept(a, c)
<1>1. ASSUME NEW i \in Mbr!Slots, c[i].type = "data" PROVE c[i] = a[i]
  <2>1. c[i] = b[i]
    BY <1>1 DEF Kept
  <2>2. b[i].type = "data"
    BY <1>1, <2>1
  <2>3. b[i] = a[i]
    BY <2>2 DEF Kept
  <2> QED BY <2>1, <2>3
<1> QED BY <1>1 DEF Kept

LEMMA KeptNoData ==
  ASSUME NEW a, NEW b, Kept(a, b), NoData(a)
  PROVE  NoData(b)
<1>1. ASSUME NEW i \in 0 .. 3, b[i].type = "data" PROVE FALSE
  <2>1. i \in Mbr!Slots
    BY Widths
  <2>2. b[i] = a[i]
    BY <1>1, <2>1 DEF Kept
  <2> QED BY <1>1, <2>2 DEF NoData
<1> QED BY <1>1 DEF NoData

\* An entry of another type than "data" in the place of one changes no other.
LEMMA PutOther ==
  ASSUME NEW m, MbrOK(m), NEW i, NEW e, EntryOK(e), e.type # "data"
  PROVE  Kept(m, [m EXCEPT ![i] = e])
<1> DEFINE n == [m EXCEPT ![i] = e]
<1>1. DOMAIN n = Mbr!Slots /\ \A j \in Mbr!Slots : n[j] = IF j = i THEN e ELSE m[j]
  BY DEF MbrOK
<1> HIDE DEF n
<1>2. MbrOK(n)
  BY <1>1 DEF MbrOK
<1>3. ASSUME NEW j \in Mbr!Slots, n[j].type = "data" PROVE n[j] = m[j]
  BY <1>1, <1>3
<1>4. Kept(m, n)
  BY <1>2, <1>3 DEF Kept
<1> QED BY <1>4 DEF n

LEMMA EmptyEntry == EntryOK(Mbr!EmptyPart) /\ Mbr!EmptyPart.type = "none"
BY DEF EntryOK, EntryFields, Mbr!EmptyPart

LEMMA MadeEntry ==
  ASSUME NEW start, NEW len, NEW as, NEW type \in {"none", "ee", "ext"}
  PROVE  LET e == Mbr!MkPart(start, len, as, type) IN EntryOK(e) /\ e.type # "data"
BY DEF EntryOK, EntryFields, Mbr!MkPart

LEMMA EmptyMbr == MbrOK(Mbr!EmptyMBR) /\ \A i \in Mbr!Slots : Mbr!EmptyMBR[i].type = "none"
<1>1. DOMAIN Mbr!EmptyMBR = Mbr!Slots /\ \A i \in Mbr!Slots : Mbr!EmptyMBR[i] = Mbr!EmptyPart
  BY DEF Mbr!EmptyMBR
<1> QED BY <1>1, EmptyEntry DEF MbrOK

LEMMA ProtectiveMbr ==
  /\ MbrOK(Mbr!ProtectiveMBR) /\ NoData(Mbr!ProtectiveMBR)
  /\ \A i \in Mbr!Slots : Mbr!ProtectiveMBR[i].type # "data"
<1> DEFINE e == Mbr!MkPart(1, DiskSize - 1, "PRIMARY", "ee")
<1>1. EntryOK(e) /\ e.type # "data"
  BY MadeEntry
<1>2. Mbr!ProtectiveMBR = [Mbr!EmptyMBR EXCEPT ![0] = e]
  BY DEF Mbr!ProtectiveMBR
<1> HIDE DEF e
<1>3. Kept(Mbr!EmptyMBR, Mbr!ProtectiveMBR)
  BY <1>1, <1>2, EmptyMbr, PutOther
<1>4. \A i \in Mbr!Slots : Mbr!ProtectiveMBR[i].type # "data"
  BY <1>3, EmptyMbr DEF Kept
<1>5. 0 .. 3 \subseteq Mbr!Slots
  BY Widths
<1> QED BY <1>3, <1>4, <1>5 DEF Kept, NoData

LEMMA StretchKeeps ==
  ASSUME NEW m, MbrOK(m), NEW i \in Mbr!Slots
  PROVE  Kept(m, Mbr!StretchEE(m, i))
<1>1. CASE m[i].type # "ee"
  BY <1>1 DEF Mbr!StretchEE, Kept
<1>2. CASE m[i].type = "ee"
  <2>1. PICK start, len : Mbr!StretchEE(m, i) = [[m EXCEPT ![i].start = start] EXCEPT ![i].len = len]
    BY <1>2 DEF Mbr!StretchEE
  <2> DEFINE e == [[m[i] EXCEPT !.start = start] EXCEPT !.len = len]
  <2>2. Mbr!StretchEE(m, i) = [m EXCEPT ![i] = e]
    <3>1. DOMAIN m = Mbr!Slots
      BY DEF MbrOK
    <3> QED BY <2>1, <3>1
  <2>3. EntryOK(e) /\ e.type # "data"
    <3>1. DOMAIN m[i] = EntryFields
      BY DEF MbrOK, EntryOK
    <3>2. DOMAIN e = EntryFields /\ e.type = "ee"
      BY <1>2, <3>1 DEF EntryFields
    <3> HIDE DEF e
    <3> QED BY <3>2 DEF EntryOK
  <2> HIDE DEF e
  <2>4. Kept(m, [m EXCEPT ![i] = e])
    BY <2>3, PutOther
  <2> QED BY <2>2, <2>4, Zenon
<1> QED BY <1>1, <1>2

LEMMA StretchedKeeps ==
  ASSUME NEW m, MbrOK(m)
  PROVE  Kept(m, Mbr!Loop(Mbr!StretchEE, m, Mbr!FirstFour))
<1>1. PICK f : /\ f[0] = m /\ \A k \in 1..4 : f[k] = Mbr!StretchEE(f[k - 1], k - 1)
               /\ Mbr!Loop(Mbr!StretchEE, m, Mbr!FirstFour) = f[4]
  BY StretchLoop
<1>2. f[1] = Mbr!StretchEE(m, 0) /\ f[2] = Mbr!StretchEE(f[1], 1)
      /\ f[3] = Mbr!StretchEE(f[2], 2) /\ f[4] = Mbr!StretchEE(f[3], 3)
  BY <1>1
<1>3. 0 \in Mbr!Slots /\ 1 \in Mbr!Slots /\ 2 \in Mbr!Slots /\ 3 \in Mbr!Slots
  BY Widths
<1>4. Kept(m, f[1])
  BY <1>2, <1>3, StretchKeeps
<1>5. Kept(f[1], f[2])
  BY <1>2, <1>3, <1>4, StretchKeeps DEF Kept
<1>6. Kept(f[2], f[3])
  BY <1>2, <1>3, <1>5, StretchKeeps DEF Kept
<1>7. Kept(f[3], f[4])
  BY <1>2, <1>3, <1>6, StretchKeeps DEF Kept
<1>8. Kept(m, f[2])
  BY <1>4, <1>5, KeptTrans
<1>9. Kept(m, f[3])
  BY <1>6, <1>8, KeptTrans
<1>10. Kept(m, f[4])
  BY <1>7, <1>9, KeptTrans
<1> QED BY <1>1, <1>10

MbrPair(x) ==
  /\ DOMAIN x = {"mbr", "state"} /\ MbrOK(x.mbr)
  /\ x.state \in States /\ (x.state = "gpt" => NoData(x.mbr))

LEMMA OptimizeKeeps ==
  ASSUME NEW x, MbrPair(x)
  PROVE  MbrPair(Mbr!OptimizeEESize(x)) /\ Kept(x.mbr, Mbr!OptimizeEESize(x).mbr)
<1> DEFINE y == Mbr!OptimizeEESize(x)
           n == Mbr!Loop(Mbr!StretchEE, x.mbr, Mbr!FirstFour)
<1>1. Kept(x.mbr, n)
  BY StretchedKeeps DEF MbrPair
<1> HIDE DEF n
<1>2. \/ y = [x EXCEPT !.mbr = Mbr!ProtectiveMBR, !.state = "gpt"]
      \/ y = [x EXCEPT !.mbr = n]
  BY DEF Mbr!OptimizeEESize, n
<1> HIDE DEF y
<1>3. CASE y = [x EXCEPT !.mbr = Mbr!ProtectiveMBR, !.state = "gpt"]
  <2>1. DOMAIN y = {"mbr", "state"} /\ y.mbr = Mbr!ProtectiveMBR /\ y.state = "gpt"
    BY <1>3 DEF MbrPair
  <2>2. Kept(x.mbr, y.mbr)
    BY <2>1, ProtectiveMbr DEF Kept
  <2> QED BY <2>1, <2>2, ProtectiveMbr DEF MbrPair, States, y
<1>4. CASE y = [x EXCEPT !.mbr = n]
  <2>1. DOMAIN y = {"mbr", "state"} /\ y.mbr = n /\ y.state = x.state
    BY <1>4 DEF MbrPair
  <2>2. MbrOK(n) /\ (NoData(x.mbr) => NoData(n))
    BY <1>1, KeptNoData DEF Kept
  <2> QED BY <1>1, <2>1, <2>2 DEF MbrPair, y
<1> QED BY <1>2, <1>3, <1>4

-----------------------------------------------------------------------------
(* Partitions in an MBR: -d, -h, -m, and gdisk's hybrid MBR.               *)

LEMMA DeleteStepKeeps ==
  ASSUME NEW y, MbrPair(y), NEW p, NEW i \in Mbr!Slots
  PROVE  LET z == DeleteStep(y, p, i) IN
         /\ MbrPair(z) /\ Kept(y.mbr, z.mbr)
         /\ z.mbr[i].type = "data" /\ p.first < Max32 /\ Mbr!LengthOf(p) < Max32 =>
              ~(z.mbr[i].start = p.first /\ z.mbr[i].len = Mbr!LengthOf(p))
<1> DEFINE z == DeleteStep(y, p, i)
           deleted == [y EXCEPT !.mbr[i] = Mbr!EmptyPart]
           Gone == /\ y.mbr[i].type # "ee" /\ p.first < Max32 /\ Mbr!LengthOf(p) < Max32
                   /\ y.mbr[i].start = p.first /\ y.mbr[i].len = Mbr!LengthOf(p)
           n == [y.mbr EXCEPT ![i] = Mbr!EmptyPart]
<1>1. z = IF Gone THEN (IF y.state = "hybrid" THEN Mbr!OptimizeEESize(deleted) ELSE deleted) ELSE y
  BY DEF DeleteStep
<1>2. Kept(y.mbr, n) /\ n[i] = Mbr!EmptyPart
  <2>1. Kept(y.mbr, [y.mbr EXCEPT ![i] = Mbr!EmptyPart])
    BY EmptyEntry, PutOther DEF MbrPair
  <2>2. DOMAIN y.mbr = Mbr!Slots
    BY DEF MbrPair, MbrOK
  <2> QED BY <2>1, <2>2
<1>3. DOMAIN deleted = {"mbr", "state"} /\ deleted.mbr = n /\ deleted.state = y.state
  BY DEF MbrPair
<1> HIDE DEF deleted, n, z
<1>4. MbrPair(deleted)
  <2>1. MbrOK(n) /\ (NoData(y.mbr) => NoData(n))
    BY <1>2, KeptNoData DEF Kept
  <2> QED BY <1>3, <2>1 DEF MbrPair
<1>5. CASE Gone
  <2>1. MbrPair(z) /\ Kept(deleted.mbr, z.mbr)
    <3>1. CASE y.state = "hybrid"
      <4>1. z = Mbr!OptimizeEESize(deleted)
        BY <1>1, <1>5, <3>1
      <4> QED BY <1>4, <4>1, OptimizeKeeps
    <3>2. CASE y.state # "hybrid"
      <4>1. z = deleted
        BY <1>1, <1>5, <3>2
      <4> QED BY <1>4, <4>1 DEF Kept, MbrPair
    <3> QED BY <3>1, <3>2
  <2>2. Kept(y.mbr, z.mbr)
    BY <1>2, <1>3, <2>1, KeptTrans
  <2>3. z.mbr[i].type # "data"
    <3>1. deleted.mbr[i].type = "none"
      BY <1>2, <1>3, EmptyEntry
    <3> QED BY <2>1, <3>1 DEF Kept
  <2> QED BY <2>1, <2>2, <2>3 DEF z
<1>6. CASE ~Gone
  <2>1. z = y
    BY <1>1, <1>6
  <2>2. Kept(y.mbr, z.mbr)
    BY <2>1 DEF Kept, MbrPair
  <2>3. z.mbr[i].type = "data" => z.mbr[i].type # "ee"
    OBVIOUS
  <2> QED BY <1>6, <2>1, <2>2, <2>3 DEF z
<1> QED BY <1>5, <1>6

\* No entry that stays is the partition deleted.
LEMMA DeleteKeeps ==
  ASSUME NEW x, MbrPair(x), NEW p
  PROVE  LET y == Mbr!DeleteByLocation(x, p) IN
         /\ MbrPair(y) /\ Kept(x.mbr, y.mbr)
         /\ \A i \in Mbr!Slots :
              y.mbr[i].type = "data" /\ p.first < Max32 /\ Mbr!LengthOf(p) < Max32 =>
                ~(y.mbr[i].start = p.first /\ y.mbr[i].len = Mbr!LengthOf(p))
<1> DEFINE Is(e) == p.first < Max32 /\ Mbr!LengthOf(p) < Max32 /\ e.start = p.first /\ e.len = Mbr!LengthOf(p)
           N == MaxParts
<1>1. PICK f : /\ f[0] = x /\ \A k \in 1..N : f[k] = DeleteStep(f[k - 1], p, k - 1)
               /\ Mbr!DeleteByLocation(x, p) = f[N]
  BY DeleteLoop
<1>2. N \in Nat /\ Mbr!Slots = 0 .. N - 1
  BY Widths
<1> DEFINE Good(k) == /\ MbrPair(f[k]) /\ Kept(x.mbr, f[k].mbr)
                      /\ \A i \in 0 .. k - 1 : f[k].mbr[i].type = "data" => ~Is(f[k].mbr[i])
           S == {k \in 0..N : Good(k)}
<1>3. 0 \in S
  <2>1. Kept(x.mbr, x.mbr)
    BY DEF Kept, MbrPair
  <2>2. 0 \in 0..N /\ \A i \in 0 .. 0 - 1 : FALSE
    BY <1>2
  <2> QED BY <1>1, <2>1, <2>2
<1>4. ASSUME NEW k \in 0..N - 1, k \in S PROVE k + 1 \in S
  <2> DEFINE y == f[k]
             z == f[k + 1]
  <2>1. k + 1 \in 1..N /\ (k + 1) - 1 = k /\ k \in Mbr!Slots /\ k + 1 \in 0..N
    BY <1>2
  <2>2. z = DeleteStep(y, p, k)
    BY <1>1, <2>1
  <2>3. MbrPair(y) /\ Kept(x.mbr, y.mbr) /\ \A i \in 0 .. k - 1 : y.mbr[i].type = "data" => ~Is(y.mbr[i])
    BY <1>4
  <2> HIDE DEF y, z
  <2>4. MbrPair(z) /\ Kept(y.mbr, z.mbr) /\ (z.mbr[k].type = "data" => ~Is(z.mbr[k]))
    BY <2>1, <2>2, <2>3, DeleteStepKeeps
  <2>5. Kept(x.mbr, z.mbr)
    BY <2>3, <2>4, KeptTrans
  <2>6. ASSUME NEW i \in 0 .. (k + 1) - 1, z.mbr[i].type = "data" PROVE ~Is(z.mbr[i])
    <3>1. CASE i = k
      BY <2>4, <2>6, <3>1
    <3>2. CASE i # k
      <4>1. i \in 0 .. k - 1 /\ i \in Mbr!Slots
        BY <1>2, <3>2
      <4>2. z.mbr[i] = y.mbr[i]
        BY <2>4, <2>6, <4>1 DEF Kept
      <4> HIDE DEF Is
      <4> QED BY <2>3, <2>6, <4>1, <4>2
    <3> QED BY <3>1, <3>2
  <2> HIDE DEF Is
  <2> QED BY <2>1, <2>4, <2>5, <2>6 DEF z
<1>5. N \in S
  <2>1. 0..N \subseteq S
    <3> HIDE DEF S, N
    <3> QED BY <1>2, <1>3, <1>4, BoundedInduction
  <2> HIDE DEF S
  <2> QED BY <1>2, <2>1
<1> HIDE DEF N
<1> QED BY <1>1, <1>2, <1>5

\* A partition and the entry of an MBR made of it.
Fits(p) == p \in Partition /\ p.first <= p.last

LEMMA SizedFits ==
  ASSUME NEW p \in Partition, Mbr!IsSizedForMBR(p) # "BAD"
  PROVE  Fits(p)
BY Widths DEF Partition, Mbr!IsSizedForMBR, Fits

LEMMA AsMBRIs ==
  ASSUME NEW p, Fits(p)
  PROVE  /\ EntryOK(Mbr!AsMBR(p))
         /\ Mbr!AsMBR(p).start = p.first /\ Mbr!AsMBR(p).len = Mbr!LengthOf(p)
         /\ p.first < Max32 /\ Mbr!LengthOf(p) < Max32
<1>1. /\ p.first \in Nat /\ p.last \in Nat /\ p.first <= p.last
      /\ p.first < Max32 /\ p.last + 1 < Max32 /\ Max32 \in Nat
  BY Widths DEF Fits, Partition
<1> DEFINE len == p.last - p.first + 1
<1>2. len \in Nat /\ len < Max32 /\ p.first + len < Max32 /\ len = Mbr!LengthOf(p)
  BY <1>1 DEF Mbr!LengthOf
<1> HIDE DEF len
<1>3. \A n \in Nat : n < Max32 => n % (Max32 + 1) = n
  BY <1>1
<1>4. Mbr!AsMBR(p) = Mbr!MkPart(p.first, len, "PRIMARY", "data")
  BY <1>1, <1>2, <1>3 DEF Mbr!AsMBR, Mbr!Low32
<1>5. EntryOK(Mbr!MkPart(p.first, len, "PRIMARY", "data"))
  BY <1>1, <1>2 DEF EntryOK, EntryFields, Mbr!MkPart
<1> QED BY <1>1, <1>2, <1>4, <1>5 DEF Mbr!MkPart

\* An entry of a hybrid MBR is none, of another type, or a partition of the table.
Made(e, parts) == e = Mbr!EmptyPart \/ \E p \in UsedParts(parts) : Fits(p) /\ e = Mbr!AsMBR(p)

LEMMA MadeIs ==
  ASSUME NEW e, NEW parts, Made(e, parts)
  PROVE  EntryOK(e) /\ (e.type = "data" => \E p \in UsedParts(parts) : p.first <= p.last /\ Mbr!AsMBR(p) = e)
<1>1. CASE e = Mbr!EmptyPart
  BY <1>1, EmptyEntry
<1>2. CASE e # Mbr!EmptyPart
  BY <1>2, AsMBRIs DEF Made, Fits
<1> QED BY <1>1, <1>2

LEMMA UsedOne ==
  ASSUME NEW parts \in Partitions, NEW n, Mbr!UsedPart(parts, n), Mbr!IsSizedForMBR(parts[n]) # "BAD"
  PROVE  Made(Mbr!AsMBR(parts[n]), parts)
<1>1. n \in DOMAIN parts /\ parts[n].last # 0 /\ parts[n] \in Partition
  BY DEF Mbr!UsedPart, Partitions
<1>2. parts[n] # Unused
  BY <1>1 DEF Unused
<1>3. parts[n] \in UsedParts(parts)
  BY <1>1, <1>2 DEF UsedParts, IsUsed
<1>4. Fits(parts[n])
  BY <1>1, SizedFits
<1> QED BY <1>3, <1>4 DEF Made

\* With entries of other types among them.
MbrOf(m, parts) ==
  DOMAIN m = Mbr!Slots /\ \A i \in Mbr!Slots : Made(m[i], parts) \/ (EntryOK(m[i]) /\ m[i].type # "data")

LEMMA MbrOfIs ==
  ASSUME NEW m, NEW parts, MbrOf(m, parts)
  PROVE  MbrOK(m) /\ Matches(m, parts)
<1>1. ASSUME NEW i \in Mbr!Slots
      PROVE  EntryOK(m[i]) /\ (m[i].type = "data" => \E p \in UsedParts(parts) : p.first <= p.last /\ Mbr!AsMBR(p) = m[i])
  BY MadeIs DEF MbrOf
<1>2. 0 .. 3 \subseteq Mbr!Slots
  BY Widths
<1> QED BY <1>1, <1>2 DEF MbrOf, MbrOK, Matches

LEMMA BuiltMbr ==
  ASSUME NEW parts \in Partitions, NEW list \in Seq(Nat), NEW hybrid \in BOOLEAN, NEW eeLast \in BOOLEAN,
         Mbr!BuildMBR(parts, list, hybrid, eeLast).ok
  PROVE  LET m == Mbr!BuildMBR(parts, list, hybrid, eeLast).mbr
         IN  MbrOK(m) /\ Matches(m, parts)
<1> DEFINE offset == IF hybrid /\ ~eeLast THEN 1 ELSE 0
           Listed(i) == i - offset + 1 \in DOMAIN list /\ Mbr!UsedPart(parts, list[i - offset + 1])
           entries == [i \in Mbr!Slots |-> IF Listed(i) THEN Mbr!AsMBR(parts[list[i - offset + 1]])
                                           ELSE Mbr!EmptyPart]
           ee == IF eeLast THEN Len(list) ELSE 0
           m == Mbr!BuildMBR(parts, list, hybrid, eeLast).mbr
<1>1. /\ m = IF hybrid THEN [entries EXCEPT ![ee] = Mbr!EE(entries)] ELSE entries
      /\ \A k \in DOMAIN list : Mbr!UsedPart(parts, list[k]) /\ Mbr!IsSizedForMBR(parts[list[k]]) = "GOOD"
  BY DEF Mbr!BuildMBR
<1>2. ASSUME NEW i \in Mbr!Slots PROVE Made(entries[i], parts)
  <2>1. CASE Listed(i)
    <3>1. entries[i] = Mbr!AsMBR(parts[list[i - offset + 1]])
      BY <2>1
    <3>2. Mbr!UsedPart(parts, list[i - offset + 1])
          /\ Mbr!IsSizedForMBR(parts[list[i - offset + 1]]) # "BAD"
      BY <1>1, <2>1
    <3> QED BY <3>1, <3>2, UsedOne
  <2>2. CASE ~Listed(i)
    BY <2>2 DEF Made
  <2> QED BY <2>1, <2>2
<1>3. DOMAIN entries = Mbr!Slots
  OBVIOUS
<1> HIDE DEF entries
<1>4. EntryOK(Mbr!EE(entries)) /\ Mbr!EE(entries).type # "data"
  BY MadeEntry DEF Mbr!EE
<1>5. DOMAIN m = Mbr!Slots
  BY <1>1, <1>3
<1>6. ASSUME NEW i \in Mbr!Slots PROVE m[i] = entries[i] \/ m[i] = Mbr!EE(entries)
  <2>1. CASE hybrid
    <3>1. m = [entries EXCEPT ![ee] = Mbr!EE(entries)]
      BY <1>1, <2>1
    <3> HIDE DEF m, ee
    <3> QED BY <1>3, <3>1
  <2>2. CASE ~hybrid
    BY <1>1, <2>2
  <2> QED BY <2>1, <2>2
<1> HIDE DEF m
<1>7. MbrOf(m, parts)
  BY <1>2, <1>4, <1>5, <1>6 DEF MbrOf
<1>8. MbrOK(m) /\ Matches(m, parts)
  BY <1>7, MbrOfIs
<1> QED BY <1>8 DEF m

ConvertedOK(x, parts) ==
  /\ DOMAIN x = {"mbr", "num", "part", "converted"}
  /\ DOMAIN x.mbr = Mbr!Slots /\ \A i \in Mbr!Slots : Made(x.mbr[i], parts)
  /\ Made(x.part, parts)

LEMMA ConvertKeeps ==
  ASSUME NEW parts \in Partitions, NEW list, NEW offset, NEW x, ConvertedOK(x, parts), NEW k
  PROVE  ConvertedOK(ConvertStep(parts, list, offset, x, k), parts)
<1> DEFINE p == parts[list[k]]
           Sized == Mbr!UsedPart(parts, list[k]) /\ Mbr!IsSizedForMBR(p) # "BAD"
           part == Mbr!AsMBR(p)
           num == k - 1 + offset
           y == IF Sized THEN [x EXCEPT !.num = num, !.part = part, !.converted = @ + 1] ELSE x
           z == [y EXCEPT !.mbr[y.num] = y.part]
<1>1. Sized => Made(part, parts)
  BY UsedOne
<1>2. ConvertStep(parts, list, offset, x, k) = z
  BY DEF ConvertStep
<1>3. DOMAIN y = {"mbr", "num", "part", "converted"} /\ y.mbr = x.mbr /\ Made(y.part, parts)
  <2>1. CASE Sized
    <3> HIDE DEF part, num
    <3>1. DOMAIN y = {"mbr", "num", "part", "converted"} /\ y.mbr = x.mbr /\ y.part = part
      <4>1. y = [x EXCEPT !.num = num, !.part = part, !.converted = @ + 1]
        BY <2>1
      <4> HIDE DEF y, Sized
      <4> QED BY <4>1 DEF ConvertedOK
    <3> HIDE DEF y, Sized
    <3> QED BY <1>1, <2>1, <3>1
  <2>2. CASE ~Sized
    BY <2>2 DEF ConvertedOK
  <2> QED BY <2>1, <2>2
<1> HIDE DEF y
<1> DEFINE m == [y.mbr EXCEPT ![y.num] = y.part]
<1>4. DOMAIN z = {"mbr", "num", "part", "converted"} /\ z.mbr = m /\ z.part = y.part
  BY <1>3
<1>5. DOMAIN m = Mbr!Slots /\ \A i \in Mbr!Slots : m[i] = y.part \/ m[i] = x.mbr[i]
  BY <1>3 DEF ConvertedOK
<1> HIDE DEF z, m
<1>6. \A i \in Mbr!Slots : Made(m[i], parts)
  BY <1>3, <1>5 DEF ConvertedOK
<1> QED BY <1>2, <1>3, <1>4, <1>5, <1>6 DEF ConvertedOK

LEMMA ConvertedAll ==
  ASSUME NEW parts \in Partitions, NEW list \in Seq(Nat), NEW offset
  PROVE  ConvertedOK(ConvertAll(parts, list, offset), parts)
<1> DEFINE N == Len(list)
<1>1. PICK f : /\ f[0] = NoneConverted
               /\ \A k \in 1..N : f[k] = ConvertStep(parts, list, offset, f[k - 1], k)
               /\ ConvertAll(parts, list, offset) = f[N]
  BY ConvertLoop
<1>2. N \in Nat
  OBVIOUS
<1> HIDE DEF N
<1> DEFINE S == {k \in 0..N : ConvertedOK(f[k], parts)}
<1>3. 0 \in S
  <2>1. Made(Mbr!EmptyPart, parts)
    BY DEF Made
  <2>2. DOMAIN Mbr!EmptyMBR = Mbr!Slots /\ \A i \in Mbr!Slots : Mbr!EmptyMBR[i] = Mbr!EmptyPart
    BY DEF Mbr!EmptyMBR
  <2>3. ConvertedOK(NoneConverted, parts)
    BY <2>1, <2>2 DEF ConvertedOK, NoneConverted
  <2> QED BY <1>1, <1>2, <2>3
<1>4. ASSUME NEW k \in 0..N - 1, k \in S PROVE k + 1 \in S
  <2>1. k + 1 \in 1..N /\ (k + 1) - 1 = k /\ k + 1 \in 0..N
    BY <1>2
  <2>2. f[k + 1] = ConvertStep(parts, list, offset, f[k], k + 1)
    BY <1>1, <2>1
  <2>3. ConvertedOK(f[k], parts)
    BY <1>4
  <2> QED BY <2>1, <2>2, <2>3, ConvertKeeps
<1>5. N \in S
  <2>1. 0..N \subseteq S
    <3> HIDE DEF S
    <3> QED BY <1>2, <1>3, <1>4, BoundedInduction
  <2> HIDE DEF S
  <2> QED BY <1>2, <2>1
<1> QED BY <1>1, <1>5

LEMMA BiggestPutsOne ==
  ASSUME NEW m
  PROVE  \/ Mbr!MakeBiggestPart(m, 3, "ee") = m
         \/ \E start, len, as : Mbr!MakeBiggestPart(m, 3, "ee") = [m EXCEPT ![3] = Mbr!MkPart(start, len, as, "ee")]
BY DEF Mbr!MakeBiggestPart, Mbr!MakePart

LEMMA HybridMbrIs ==
  ASSUME NEW parts \in Partitions, NEW mbr, MbrOK(mbr),
         NEW list \in Seq(Nat), NEW eeFirst \in BOOLEAN, NEW protect \in BOOLEAN
  PROVE  LET m == Mbr!MakeHybrid(mbr, parts, list, eeFirst, protect)
         IN  MbrOK(m) /\ (Matches(mbr, parts) => Matches(m, parts))
<1> DEFINE offset == IF eeFirst THEN 1 ELSE 0
           x == ConvertAll(parts, list, offset)
           ee == IF eeFirst THEN 0 ELSE x.converted
           e == Mbr!EE(x.mbr)
           hybrid == [x.mbr EXCEPT ![ee] = e]
           m == Mbr!MakeHybrid(mbr, parts, list, eeFirst, protect)
<1>1. \/ m = mbr \/ m = hybrid \/ m = Mbr!MakeBiggestPart(hybrid, 3, "ee")
  BY DEF Mbr!MakeHybrid, ConvertAll, ConvertStep, NoneConverted
<1>2. ConvertedOK(x, parts)
  BY ConvertedAll
<1> HIDE DEF x, m
<1>3. EntryOK(e) /\ e.type # "data"
  BY MadeEntry DEF Mbr!EE
<1> HIDE DEF e, ee
<1>4. MbrOf(hybrid, parts)
  <2>1. DOMAIN hybrid = Mbr!Slots /\ \A i \in Mbr!Slots : hybrid[i] = e \/ hybrid[i] = x.mbr[i]
    BY <1>2 DEF ConvertedOK
  <2> HIDE DEF hybrid
  <2> QED BY <1>2, <1>3, <2>1 DEF MbrOf, ConvertedOK
<1> HIDE DEF hybrid
<1>5. MbrOf(Mbr!MakeBiggestPart(hybrid, 3, "ee"), parts)
  <2> DEFINE n == Mbr!MakeBiggestPart(hybrid, 3, "ee")
  <2>1. n = hybrid \/ \E start, len, as : n = [hybrid EXCEPT ![3] = Mbr!MkPart(start, len, as, "ee")]
    BY BiggestPutsOne
  <2> HIDE DEF n
  <2>2. ASSUME NEW start, NEW len, NEW as, n = [hybrid EXCEPT ![3] = Mbr!MkPart(start, len, as, "ee")]
        PROVE  MbrOf(n, parts)
    <3> DEFINE d == Mbr!MkPart(start, len, as, "ee")
    <3>1. EntryOK(d) /\ d.type # "data"
      BY MadeEntry
    <3> HIDE DEF d
    <3>2. DOMAIN n = Mbr!Slots /\ \A i \in Mbr!Slots : n[i] = d \/ n[i] = hybrid[i]
      <4>1. n = [hybrid EXCEPT ![3] = d]
        BY <2>2 DEF d
      <4> QED BY <1>4, <4>1 DEF MbrOf
    <3> QED BY <1>4, <3>1, <3>2 DEF MbrOf
  <2>3. MbrOf(n, parts)
    BY <1>4, <2>1, <2>2
  <2> QED BY <2>3 DEF n
<1>6. MbrOK(m) /\ (Matches(mbr, parts) => Matches(m, parts))
  BY <1>1, <1>4, <1>5, MbrOfIs
<1> QED BY <1>6 DEF m

LEMMA XFormed ==
  ASSUME NEW m, MbrOK(m)
  PROVE  Mbr!XFormPartitions(m, NumParts) \in Partitions
<1>1. ASSUME NEW k \in 1 .. NumParts
      PROVE  (IF k - 1 \in Mbr!Slots /\ m[k - 1].type = "data"
              THEN [first |-> m[k - 1].start, last |-> Mbr!LastLBA(m[k - 1])]
              ELSE [first |-> 0, last |-> 0]) \in Partition
  <2>1. CASE k - 1 \in Mbr!Slots /\ m[k - 1].type = "data"
    <3>1. EntryOK(m[k - 1]) /\ m[k - 1].type = "data"
      BY <2>1 DEF MbrOK
    <3> DEFINE e == m[k - 1]
    <3>2. e.start \in Nat /\ e.len \in Nat /\ e.start + e.len < Max32
      BY <3>1 DEF EntryOK
    <3> HIDE DEF e
    <3>3. Mbr!LastLBA(e) \in 0 .. Max32 - 2 /\ e.start \in 0 .. Max32 - 1
      BY <3>2, Widths DEF Mbr!LastLBA
    <3>4. [first |-> e.start, last |-> Mbr!LastLBA(e)] \in Partition
      BY <3>3 DEF Partition
    <3> QED BY <2>1, <3>4 DEF e
  <2>2. CASE ~(k - 1 \in Mbr!Slots /\ m[k - 1].type = "data")
    <3>1. [first |-> 0, last |-> 0] \in Partition
      BY Widths DEF Partition
    <3> QED BY <2>2, <3>1
  <2> QED BY <2>1, <2>2
<1> QED BY <1>1 DEF Mbr!XFormPartitions, Partitions

LEMMA BlankTable == Blank \in Partitions /\ UsedParts(Blank) = {}
<1>1. Unused \in Partition
  BY Widths DEF Partition, Unused
<1> QED BY <1>1 DEF Partitions, Blank, UsedParts, IsUsed

LEMMA TableType ==
  ASSUME NEW parts \in Partitions
  PROVE  parts \in Seq(AnyPart) /\ DOMAIN parts = 1 .. NumParts
<1>1. NumParts \in Nat
  BY OptionsAssumption
<1>2. Partition \subseteq AnyPart
  BY Widths DEF Partition, AnyPart
<1>3. parts \in [1 .. NumParts -> AnyPart]
  BY <1>2 DEF Partitions
<1>4. parts \in Seq(AnyPart)
  BY <1>1, <1>3, SeqDef
<1> QED BY <1>4 DEF Partitions

\* Nothing is lost of a match when the other entries change and the table grows.
LEMMA MatchesKept ==
  ASSUME NEW a, NEW b, Kept(a, b), NEW parts, Matches(a, parts)
  PROVE  Matches(b, parts)
<1>1. 0 .. 3 \subseteq Mbr!Slots
  BY Widths
<1>2. ASSUME NEW i \in 0 .. 3, b[i].type = "data" PROVE b[i] = a[i]
  BY <1>1, <1>2 DEF Kept
<1> QED BY <1>2 DEF Matches

-----------------------------------------------------------------------------
(* The steps keep the types.                                               *)

LEMMA SpaceType ==
  ASSUME MemOK
  PROVE  /\ Roomy(Space) /\ Space.align \in Nat \ {0} /\ Space.parts = mem.parts
         /\ Space.first = FirstUsable /\ Space.last = LastUsable
         /\ mem.parts \in Seq(AnyPart) /\ DOMAIN mem.parts = 1 .. NumParts
<1>1. mem.parts \in Seq(AnyPart) /\ DOMAIN mem.parts = 1 .. NumParts
  BY TableType DEF MemOK
<1>2. /\ Space.parts = mem.parts /\ Space.first = FirstUsable /\ Space.last = LastUsable
      /\ Space.align = mem.align
  BY DEF Space
<1>3. Roomy(Space)
  BY <1>1, <1>2, Widths DEF Roomy
<1> QED BY <1>1, <1>2, <1>3 DEF MemOK

LEMMA DefaultsType ==
  ASSUME MemOK
  PROVE  DefaultStart \in Nat /\ \A start \in Nat : LastFrom(start) \in Nat
<1>1. Roomy(Space) /\ Space.align \in Nat \ {0} /\ Space.parts \in Seq(AnyPart) /\ Space.last \in Nat
  BY SpaceType, Widths
<1>2. FindFirstInLargest(Space) \in Nat
  BY <1>1, LargestType
<1>3. DefaultStart \in Nat
  BY <1>1, <1>2, AlignType DEF DefaultStart
<1>4. ASSUME NEW start \in Nat PROVE LastFrom(start) \in Nat
  <2>1. FindLastInFree(Space, start) \in Nat
    BY <1>1, LastInFreeIs
  <2> DEFINE sector == FindLastInFree(Space, start) + 1
  <2>a. sector \in Nat
    BY <2>1
  <2> HIDE DEF sector
  <2>b. Align(Space, sector) \in Nat
    BY <1>1, <2>a, AlignType
  <2>2. Align(Space, FindLastInFree(Space, start) + 1) \in Nat
    BY <2>b DEF sector
  <2>3. FindLastAligned(Space, start) \in Nat
    BY <2>1, <2>2 DEF FindLastAligned
  <2> QED BY <2>1, <2>3 DEF LastFrom
<1> QED BY <1>3, <1>4

LEMMA SectorsAsked ==
  ASSUME MemOK, NEW x, x.n \in Nat, NEW low \in Nat, NEW high \in Nat, NEW default \in Nat
  PROVE  IeeeToInt(x, low, high, default) \in Nat
<1>1. CASE x.n = 0
  BY <1>1 DEF IeeeToInt
<1>2. CASE x.n # 0 /\ x.sign = "+"
  <2>1. IeeeToInt(x, low, high, default) \in {low + x.n - 1, default + x.n}
    BY <1>2 DEF IeeeToInt
  <2> QED BY <1>2, <2>1
<1>3. CASE x.n # 0 /\ x.sign = "-"
  <2>1. IeeeToInt(x, low, high, default) = IF x.n > high THEN 0 ELSE high - x.n
    BY <1>3 DEF IeeeToInt
  <2> QED BY <1>3, <2>1
<1>4. CASE x.n # 0 /\ x.sign # "+" /\ x.sign # "-"
  BY <1>4 DEF IeeeToInt
<1> QED BY <1>1, <1>2, <1>3, <1>4

\* What -n and -N may do, with the partition that is made.
Creates(n, start, part) ==
  /\ n \in 1 .. NumParts /\ ~IsUsed(mem.parts[n])
  /\ part \in Partition /\ IsUsed(part) /\ part.first <= part.last /\ part.last < DiskSize
  /\ start \in Nat
  /\ mem' = [mem EXCEPT !.parts[n] = part]
  /\ wiper' = Append(wiper, [first |-> start, last |-> part.last])
  /\ aux' = [aux EXCEPT !.created = @ \union {part}, !.moved = @ \/ part.first # start]
  /\ auxStale' = auxStale \union IF \E p \in UsedParts(mem.parts) : Overlap(p, part) THEN {"n"} ELSE {}
  /\ Packed(Space) => \A p \in UsedParts(mem.parts) : ~Overlap(p, part)
  /\ UNCHANGED <<disk, backup, retval>>

\* In a table without partitions of one sector the search ends in front of all others.
LEMMA MadeInFree ==
  ASSUME MemOK, Packed(Space), NEW part \in AnyPart, IsFree(Space, part.first),
         part.first <= part.last, part.last <= FindLastInFree(Space, part.first),
         NEW p \in UsedParts(mem.parts)
  PROVE  ~Overlap(p, part)
<1> DEFINE a == part.first
           z == FindLastInFree(Space, a)
<1>1. /\ Space.parts = mem.parts /\ Space.first \in Nat /\ Space.last \in Nat
      /\ a \in Nat /\ part.last \in Nat /\ Space.first <= a /\ a <= Space.last
  BY SpaceType, Widths DEF IsFree, AnyPart
<1>2. a \in FreeIn(Space)
  BY <1>1 DEF FreeIn, Clear, IsFree
<1>3. z \in Nat /\ part.last <= z /\ a .. z \subseteq FreeIn(Space)
  BY <1>2, BlockEnd
<1>4. PICK i \in DOMAIN mem.parts : p = mem.parts[i] /\ IsUsed(mem.parts[i])
  BY DEF UsedParts
<1>5. mem.parts \in Seq(AnyPart)
  BY SpaceType
<1>6. p.first \in Nat /\ p.last \in Nat /\ p.first < p.last
  <2>1. p \in AnyPart
    BY <1>4, <1>5
  <2> QED BY <1>1, <1>4, <2>1 DEF Packed, AnyPart
<1>7. ASSUME NEW x \in a .. z PROVE ~(p.first <= x /\ x <= p.last)
  BY <1>1, <1>3, <1>4 DEF FreeIn, Clear, Holds
<1> HIDE DEF a, z
<1>8. SUFFICES ASSUME p.first <= part.last, a <= p.last PROVE FALSE
  BY <1>1, <1>6 DEF Overlap, a
<1>9. CASE p.first <= a
  <2>1. a \in a .. z
    BY <1>1, <1>2, <1>3, BlockEnd DEF z
  <2> QED BY <1>7, <1>8, <1>9, <2>1
<1>10. CASE a < p.first
  BY <1>1, <1>3, <1>6, <1>7, <1>8, <1>10
<1> QED BY <1>1, <1>6, <1>9, <1>10

LEMMA CreateCreates ==
  ASSUME MemOK, NEW n, NEW start \in Nat, NEW end \in Nat, CreatePartition(n, start, end)
  PROVE  (Fails /\ auxStale' = auxStale) \/ \E part : Creates(n, start, part)
<1> DEFINE first == Align(Space, start)
           part == [first |-> first, last |-> end]
<1>1. part.first = first
  OBVIOUS
<1>2. CASE MayCreate(n, first, end)
  <2>1. first \in Nat
    BY SpaceType, AlignType
  <2>2. /\ n \in 1 .. NumParts /\ ~IsUsed(mem.parts[n]) /\ first <= end
        /\ FindLastInFree(Space, first) >= end /\ FirstUsable <= first
    BY <1>2, SpaceType DEF MayCreate, IsFree
  <2>3. FindLastInFree(Space, first) \in Nat /\ FindLastInFree(Space, first) <= LastUsable
    <3>1. Space.parts \in Seq(AnyPart) /\ Space.last \in Nat /\ Space.last = LastUsable
      BY SpaceType, Widths
    <3> HIDE DEF first
    <3> QED BY <2>1, <3>1, LastInFreeIs
  <2>4. end + 3 <= DiskSize /\ DiskSize \in Nat /\ DiskSize <= Max32 /\ first >= 3
    <3> HIDE DEF first
    <3> QED BY <2>1, <2>2, <2>3, Widths
  <2>5. part \in Partition
    <3> HIDE DEF first
    <3> QED BY <2>1, <2>2, <2>4, Widths DEF Partition
  <2>6. IsUsed(part)
    <3> HIDE DEF first
    <3> QED BY <2>4 DEF IsUsed, Unused
  <2>7. /\ mem' = [mem EXCEPT !.parts[n] = part]
        /\ wiper' = Append(wiper, [first |-> start, last |-> end])
        /\ aux' = [aux EXCEPT !.created = @ \union {part}, !.moved = @ \/ part.first # start]
        /\ auxStale' = auxStale \union IF \E p \in UsedParts(mem.parts) : Overlap(p, part) THEN {"n"} ELSE {}
        /\ UNCHANGED <<disk, backup, retval>>
    BY <1>2 DEF CreatePartition
  <2>8. part.last = end /\ part.first = first /\ end < DiskSize
    <3> HIDE DEF first
    <3> QED BY <2>4
  <2> HIDE DEF part, first
  <2>9. ASSUME Packed(Space), NEW p \in UsedParts(mem.parts) PROVE ~Overlap(p, part)
    <3>1. part \in AnyPart
      BY <2>5, Widths DEF AnyPart, Partition
    <3>2. /\ IsFree(Space, part.first) /\ part.first <= part.last
          /\ part.last <= FindLastInFree(Space, part.first)
      BY <1>2, <2>2, <2>3, <2>8 DEF MayCreate
    <3> QED BY <2>9, <3>1, <3>2, MadeInFree
  <2>10. Creates(n, start, part)
    BY <2>2, <2>5, <2>6, <2>7, <2>8, <2>9 DEF Creates
  <2> QED BY <2>10
<1>3. CASE ~MayCreate(n, first, end)
  BY <1>3 DEF CreatePartition
<1> QED BY <1>2, <1>3

LEMMA PartsExcept ==
  ASSUME MemOK, NEW n, NEW part \in Partition
  PROVE  /\ [mem.parts EXCEPT ![n] = part] \in Partitions
         /\ \A m : m = [mem EXCEPT !.parts[n] = part] =>
              /\ DOMAIN m = DOMAIN mem /\ m.parts = [mem.parts EXCEPT ![n] = part]
              /\ m.align = mem.align /\ m.mbr = mem.mbr /\ m.state = mem.state
BY DEF MemOK, Partitions

LEMMA CreatedType ==
  ASSUME TypeInv, NEW n, NEW start, NEW part, Creates(n, start, part)
  PROVE  DiskOK' /\ BackupOK' /\ MemOK' /\ WiperOK' /\ RetvalOK'
<1>1. MemOK'
  <2>1. /\ mem'.parts \in Partitions /\ DOMAIN mem' = DOMAIN mem
        /\ mem'.align = mem.align /\ mem'.mbr = mem.mbr /\ mem'.state = mem.state
    <3>1. MemOK /\ part \in Partition /\ mem' = [mem EXCEPT !.parts[n] = part]
      BY DEF TypeInv, Creates
    <3> QED BY <3>1, PartsExcept
  <2> QED BY <2>1 DEF TypeInv, MemOK
<1>2. WiperOK'
  <2>1. wiper \in Seq(AnyPart) /\ start \in Nat /\ part \in Partition /\ part.last < DiskSize
        /\ wiper' = Append(wiper, [first |-> start, last |-> part.last])
        /\ \A i \in 1 .. Len(wiper) : wiper[i].last < DiskSize
    BY DEF TypeInv, WiperOK, Creates
  <2>2. [first |-> start, last |-> part.last] \in AnyPart
    BY <2>1, Widths DEF AnyPart, Partition
  <2> DEFINE r == [first |-> start, last |-> part.last]
  <2>3. r.last < DiskSize
    BY <2>1
  <2> HIDE DEF r
  <2>4. wiper' \in Seq(AnyPart) /\ Len(wiper') = Len(wiper) + 1
        /\ wiper'[Len(wiper) + 1] = r /\ \A i \in 1 .. Len(wiper) : wiper'[i] = wiper[i]
    BY <2>1, <2>2 DEF r
  <2>5. ASSUME NEW i \in 1 .. Len(wiper') PROVE wiper'[i].last < DiskSize
    BY <2>1, <2>3, <2>4
  <2> QED BY <2>4, <2>5 DEF WiperOK
<1> QED BY <1>1, <1>2 DEF TypeInv, Creates, DiskOK, BackupOK, RetvalOK

LEMMA OptionLeft ==
  ASSUME LeftOK, NEW failures \in {0, 1}, OptionWith(failures)
  PROVE  LeftOK'
<1>1. left.faults \in 0 .. Faults /\ left.faults >= failures
      /\ left' = [left EXCEPT !.options = @ - 1, !.faults = @ - failures] /\ Faults \in Nat
  BY OptionsAssumption DEF LeftOK, OptionWith
<1>2. DOMAIN left' = DOMAIN left /\ left'.faults = left.faults - failures
  BY <1>1 DEF LeftOK
<1> QED BY <1>1, <1>2 DEF LeftOK

LEMMA OptionsLeft ==
  ASSUME LeftOK, TakeOption
  PROVE  LeftOK'
<1>1. CASE Option
  BY <1>1, OptionLeft DEF Option
<1>2. CASE AnyOption
  BY <1>2 DEF LeftOK, AnyOption
<1>3. CASE OptGptToMbr \/ OptReplicate
  <2>1. PICK failures \in {0, 1} : OptionWith(failures)
    BY <1>3 DEF OptGptToMbr, OptReplicate
  <2> QED BY <2>1, OptionLeft
<1>4. CASE OptDelete \/ OptTranspose \/ OptEdit \/ OptTouch \/ OptAlignment
           \/ OptMbrToGpt \/ OptHybrid \/ OptBackup \/ OptAttributes
  BY <1>1, <1>4 DEF OptDelete, OptTranspose, OptEdit, OptTouch, OptAlignment,
                    OptMbrToGpt, OptHybrid, OptBackup, OptAttributes
<1>5. CASE OptClear \/ OptLoadBackup \/ OptZap
  BY <1>2, <1>5 DEF OptClear, OptLoadBackup, OptZap
<1>6. CASE OptNew \/ OptLargest
  <2>1. OptionWith(0)
    BY <1>6 DEF OptNew, OptLargest
  <2> QED BY <2>1, OptionLeft
<1> QED BY <1>3, <1>4, <1>5, <1>6 DEF TakeOption

\* What has once been noted of stale MBRs and of overlaps stays noted.
LEMMA StaleGrows ==
  ASSUME TakeOption
  PROVE  auxStale \subseteq auxStale'
<1>1. CASE OptNew \/ OptLargest
  <2>1. \E n, start, end : CreatePartition(n, start, end)
    BY <1>1 DEF OptNew, OptLargest
  <2> QED BY <2>1 DEF CreatePartition
<1>2. CASE OptDelete \/ OptTranspose \/ OptEdit \/ OptTouch \/ OptAlignment \/ OptMbrToGpt \/ OptHybrid
           \/ OptBackup \/ OptAttributes
  BY <1>2 DEF OptDelete, OptTranspose, OptEdit, OptTouch, OptAlignment, OptMbrToGpt, OptHybrid,
              OptBackup, OptAttributes, Option
<1>3. CASE OptGptToMbr \/ OptClear \/ OptLoadBackup \/ OptZap \/ OptReplicate
  BY <1>3 DEF OptGptToMbr, OptClear, OptLoadBackup, OptZap, OptReplicate
<1> QED BY <1>1, <1>2, <1>3 DEF TakeOption

-----------------------------------------------------------------------------
(* The ranges that wait to be wiped, and the tables in memory.             *)

ForgetStep(list, p) == [x \in (1..Len(list)) \X Seq(AnyPart) |-> IF list[x[1]] = p THEN x[2] ELSE Append(x[2], list[x[1]])]

LEMMA ForgetSteps ==
  ASSUME wiper \in Seq(AnyPart), NEW p
  PROVE  \E h : /\ Steps(h, Len(wiper), <<>>, Seq(AnyPart), ForgetStep(wiper, p))
                /\ ForgetRange(p) = h[Len(wiper)]
<1> DEFINE list == wiper
           N == Len(list)
           V == Seq(AnyPart)
           b == <<>>
           g == ForgetStep(list, p)
           op(x, seg) == IF seg = p THEN x ELSE Append(x, seg)
           Is(f) == f = [I \in SUBSET (DOMAIN list) |->
                           IF I = {} THEN b ELSE op(f[I \ {Max(I)}], list[Max(I)])]
           F == CHOOSE f : Is(f)
<1>1. ForgetRange(p) = F[1..N] /\ DOMAIN list = 1..N /\ N \in Nat
  <2>1. ForgetRange(p) = F[DOMAIN list]
    BY DEF ForgetRange, FoldLeft, MapThenFoldSet
  <2>2. DOMAIN list = 1..N /\ N \in Nat
    <3> HIDE DEF list
    <3> QED BY DEF list
  <2> HIDE DEF F
  <2> QED BY <2>1, <2>2
<1>2. g \in [(1..N) \X V -> V] /\ b \in V
  <2>1. ASSUME NEW i \in 1..N, NEW y \in V
        PROVE  op(y, list[i]) \in V
    <3>1. list[i] \in AnyPart
      OBVIOUS
    <3> HIDE DEF list
    <3> QED BY <3>1 
  <2>2. b \in V
    OBVIOUS
  <2> HIDE DEF list
  <2> QED BY <2>1, <2>2 DEF ForgetStep
<1>3. ASSUME NEW I \in SUBSET (1..N), I # {}, NEW y \in V
      PROVE  g[<<Max(I), y>>] = op(y, list[Max(I)])
  <2>1. Max(I) \in 1..N
    BY <1>1, <1>3, MaxIn
  <2> HIDE DEF list
  <2> QED BY <2>1 DEF ForgetStep
<1>4. PICK f \in [SUBSET (1..N) -> V] : FoldsBy(f, N, b, g)
  <2> HIDE DEF g, N, V, b
  <2> QED BY <1>1, <1>2, FoldExists
<1>5. Is(f)
  <2>1. ASSUME NEW I \in SUBSET (1..N), I # {}
        PROVE  g[<<Max(I), f[I \ {Max(I)}]>>] = op(f[I \ {Max(I)}], list[Max(I)])
    <3>1. f[I \ {Max(I)}] \in V
      BY <1>4
    <3> HIDE DEF g, op, V
    <3> QED BY <1>3, <2>1, <3>1
  <2> HIDE DEF g, op, N, list, V, b
  <2> QED BY <1>1, <1>4, <2>1 DEF FoldsBy
<1>6. Is(F)
  <2> HIDE DEF Is
  <2> QED BY <1>5
<1>8. Follows(F, N, b, V, g)
  <2>1. F[{}] = b
    <3> HIDE DEF F, op, N, list, b
    <3> QED BY <1>1, <1>6
  <2>2. ASSUME NEW I \in SUBSET (1..N), I # {}, F[I \ {Max(I)}] \in V
        PROVE  F[I] = g[<<Max(I), F[I \ {Max(I)}]>>]
    <3> HIDE DEF F, op, N, g, list, V, b
    <3> QED BY <1>1, <1>3, <1>6, <2>2
  <2> HIDE DEF F, op, N, g, list, V, b
  <2> QED BY <1>1, <1>2, <2>1, <2>2 DEF Follows
<1>9. \E h : Steps(h, N, b, V, g) /\ h[N] = F[1..N]
  <2> HIDE DEF F, g, N, V, b
  <2> QED BY <1>8, FoldSteps
<1> HIDE DEF F
<1> QED BY <1>1, <1>9

\* ForgetRange() leaves the other ranges.
LEMMA ForgetIs ==
  ASSUME WiperOK, NEW p
  PROVE  LET w == ForgetRange(p) IN
         /\ w \in Seq(AnyPart)
         /\ {w[i] : i \in 1 .. Len(w)} = {wiper[i] : i \in 1 .. Len(wiper)} \ {p}
<1> DEFINE N == Len(wiper)
           V == Seq(AnyPart)
           g == ForgetStep(wiper, p)
<1>1. wiper \in V /\ N \in Nat
  BY DEF WiperOK
<1>2. PICK h : Steps(h, N, <<>>, V, g) /\ ForgetRange(p) = h[N]
  BY <1>1, ForgetSteps
<1> DEFINE Elements(w) == {w[i] : i \in 1 .. Len(w)}
           S == {k \in 0..N : Elements(h[k]) = {wiper[i] : i \in 1 .. k} \ {p}}
<1>3. 0 \in S
  <2>1. h[0] = <<>> /\ 0 \in 0..N
    BY <1>1, <1>2 DEF Steps
  <2>2. Elements(h[0]) = {} /\ {wiper[i] : i \in 1 .. 0} = {}
    BY <2>1
  <2> QED BY <2>1, <2>2
<1>4. ASSUME NEW k \in 0..N - 1, k \in S PROVE k + 1 \in S
  <2>1. k + 1 \in 1..N /\ (k + 1) - 1 = k /\ k \in 0..N /\ k \in Nat
    BY <1>1
  <2>2. h[k] \in V /\ h[k + 1] = g[<<k + 1, h[k]>>]
    BY <1>2, <2>1 DEF Steps
  <2> DEFINE a == h[k]
             r == wiper[k + 1]
  <2>3. h[k + 1] = IF r = p THEN a ELSE Append(a, r)
    BY <2>1, <2>2 DEF ForgetStep
  <2>4. a \in Seq(AnyPart) /\ r \in AnyPart
    BY <1>1, <2>1, <2>2
  <2>5. Elements(a) = {wiper[i] : i \in 1 .. k} \ {p}
    BY <1>4
  <2>6. {wiper[i] : i \in 1 .. k + 1} = {wiper[i] : i \in 1 .. k} \union {r}
    <3>1. 1 .. k + 1 = (1 .. k) \union {k + 1}
      BY <2>1
    <3> QED BY <3>1
  <2> HIDE DEF a, r
  <2>7. Elements(Append(a, r)) = Elements(a) \union {r}
    <3> DEFINE b == Append(a, r)
    <3>1. /\ Len(b) = Len(a) + 1 /\ Len(a) \in Nat
          /\ \A i \in 1 .. Len(a) : b[i] = a[i]
          /\ b[Len(a) + 1] = r
      BY <2>4
    <3> HIDE DEF b
    <3>2. 1 .. Len(b) = (1 .. Len(a)) \union {Len(a) + 1}
      BY <3>1
    <3>3. Elements(b) = Elements(a) \union {r}
      <4>1. ASSUME NEW i \in 1 .. Len(b) PROVE b[i] \in Elements(a) \union {r}
        <5>1. CASE i = Len(a) + 1
          BY <3>1, <5>1
        <5>2. CASE i # Len(a) + 1
          <6>1. i \in 1 .. Len(a)
            BY <3>2, <5>2
          <6> QED BY <3>1, <6>1
        <5> QED BY <5>1, <5>2
      <4>2. ASSUME NEW i \in 1 .. Len(a) PROVE a[i] \in Elements(b)
        <5>1. i \in 1 .. Len(b) /\ b[i] = a[i]
          BY <3>1, <3>2
        <5> QED BY <5>1
      <4>3. r \in Elements(b)
        <5>1. Len(a) + 1 \in 1 .. Len(b)
          BY <3>2
        <5> QED BY <3>1, <5>1
      <4> QED BY <4>1, <4>2, <4>3
    <3> QED BY <3>3 DEF b
  <2> HIDE DEF Elements
  <2>8. CASE r = p
    <3>1. Elements(h[k + 1]) = {wiper[i] : i \in 1 .. k + 1} \ {p}
      BY <2>3, <2>5, <2>6, <2>8
    <3> QED BY <2>1, <3>1
  <2>9. CASE r # p
    <3>1. Elements(h[k + 1]) = {wiper[i] : i \in 1 .. k + 1} \ {p}
      BY <2>3, <2>5, <2>6, <2>7, <2>9
    <3> QED BY <2>1, <3>1
  <2> QED BY <2>8, <2>9
<1>5. N \in S
  <2>1. 0..N \subseteq S
    <3> HIDE DEF S, N
    <3> QED BY <1>1, <1>3, <1>4, BoundedInduction
  <2> HIDE DEF S
  <2> QED BY <1>1, <2>1
<1>6. h[N] \in V
  BY <1>1, <1>2 DEF Steps
<1>7. Elements(h[N]) = {wiper[i] : i \in 1 .. N} \ {p}
  BY <1>5
<1> QED BY <1>2, <1>6, <1>7

LEMMA ForgottenType ==
  ASSUME WiperOK, NEW p, wiper' = ForgetRange(p)
  PROVE  WiperOK'
<1>1. /\ wiper' \in Seq(AnyPart)
      /\ {wiper'[i] : i \in 1 .. Len(wiper')} = {wiper[i] : i \in 1 .. Len(wiper)} \ {p}
  BY ForgetIs
<1>2. ASSUME NEW i \in 1 .. Len(wiper') PROVE wiper'[i].last < DiskSize
  <2>1. wiper'[i] \in {wiper[k] : k \in 1 .. Len(wiper)}
    BY <1>1
  <2>2. PICK k \in 1 .. Len(wiper) : wiper'[i] = wiper[k]
    BY <2>1
  <2> QED BY <2>2 DEF WiperOK
<1> QED BY <1>1, <1>2 DEF WiperOK

LEMMA NothingToWipe == wiper' = <<>> => WiperOK'
BY DEF WiperOK

LEMMA DeletedType ==
  ASSUME MemOK, NEW n, MayDelete(n), n \in Int
  PROVE  LET m == DeletedIn(mem, n) IN
         /\ n \in 1 .. NumParts
         /\ DOMAIN m = DOMAIN mem /\ m.parts = [mem.parts EXCEPT ![n] = Unused] /\ m.align = mem.align
         /\ m.parts \in Partitions
         /\ MbrPair([mbr |-> m.mbr, state |-> m.state]) /\ Kept(mem.mbr, m.mbr)
         /\ \A i \in Mbr!Slots :
              m.mbr[i].type = "data" /\ mem.parts[n].first < Max32 /\ Mbr!LengthOf(mem.parts[n]) < Max32 =>
                ~(m.mbr[i].start = mem.parts[n].first /\ m.mbr[i].len = Mbr!LengthOf(mem.parts[n]))
<1>1. n \in 1 .. NumParts
  <2>1. DOMAIN mem.parts = 1 .. NumParts /\ NumParts \in Nat
    BY SpaceType, OptionsAssumption
  <2>2. PICK i \in 1 .. NumParts, k \in 1 .. NumParts : i <= n /\ k >= n
    BY <2>1 DEF MayDelete
  <2> QED BY <2>1, <2>2
<1> DEFINE x == [mbr |-> mem.mbr, state |-> mem.state]
           p == mem.parts[n]
           y == Mbr!DeleteByLocation(x, p)
           m == DeletedIn(mem, n)
           parts == [mem.parts EXCEPT ![n] = Unused]
<1>2. MbrPair(x) /\ x.mbr = mem.mbr
  BY DEF MbrPair, MemOK
<1>3. /\ MbrPair(y) /\ Kept(x.mbr, y.mbr)
      /\ \A i \in Mbr!Slots :
           y.mbr[i].type = "data" /\ p.first < Max32 /\ Mbr!LengthOf(p) < Max32 =>
             ~(y.mbr[i].start = p.first /\ y.mbr[i].len = Mbr!LengthOf(p))
  <2> HIDE DEF x, p
  <2> QED BY <1>2, DeleteKeeps
<1>4. m = [mem EXCEPT !.parts[n] = Unused, !.mbr = y.mbr, !.state = y.state]
  BY DEF DeletedIn
<1>5. parts \in Partitions
  <2>1. Unused \in Partition
    BY Widths DEF Unused, Partition
  <2> QED BY <2>1, PartsExcept
<1> HIDE DEF m, y, x, p
<1>6. /\ DOMAIN m = DOMAIN mem /\ m.parts = parts /\ m.align = mem.align
      /\ m.mbr = y.mbr /\ m.state = y.state
  BY <1>4 DEF MemOK
<1> HIDE DEF parts
<1>7. MbrPair([mbr |-> m.mbr, state |-> m.state])
  BY <1>3, <1>6 DEF MbrPair
<1> QED BY <1>1, <1>2, <1>3, <1>5, <1>6, <1>7 DEF m, p, parts

LEMMA BackupType ==
  ASSUME BackupOK, backup.holds = "gpt"
  PROVE  MbrPair(BackupMBR) /\ Kept(backup.mbr, BackupMBR.mbr)
<1> DEFINE x == [mbr |-> backup.mbr, state |-> Mbr!StateOf(backup.mbr)]
<1>1. MbrPair(x) /\ x.mbr = backup.mbr
  BY Widths DEF MbrPair, BackupOK, Mbr!StateOf, States, NoData
<1>2. Kept(x.mbr, x.mbr)
  BY <1>1 DEF Kept, MbrPair
<1>3. BackupMBR = x \/ BackupMBR = Mbr!OptimizeEESize(x)
  BY DEF BackupMBR
<1> HIDE DEF x
<1> QED BY <1>1, <1>2, <1>3, OptimizeKeeps

LEMMA NoMemType ==
  /\ NoMem.parts = Blank /\ NoMem.mbr = Mbr!ProtectiveMBR /\ NoMem.state = "gpt"
  /\ NoMem.align \in Nat \ {0} /\ DOMAIN NoMem = {"parts", "align", "alignEnd", "mbr", "state"}
BY OptionsAssumption DEF NoMem

\* -l: what the backup holds, or empty tables.
LEMMA BackupMemType ==
  ASSUME MemOK, BackupOK, mem' = BackupMem
  PROVE  MemOK'
<1>1. CASE backup.holds = "gpt"
  <2> DEFINE x == BackupMBR
  <2>1. mem' = [mem EXCEPT !.parts = backup.parts, !.mbr = x.mbr, !.state = x.state]
    BY <1>1 DEF BackupMem
  <2>2. MbrPair(x)
    BY <1>1, BackupType
  <2> HIDE DEF x
  <2>3. /\ DOMAIN mem' = DOMAIN mem /\ mem'.parts = backup.parts /\ mem'.align = mem.align
        /\ mem'.mbr = x.mbr /\ mem'.state = x.state
    BY <2>1 DEF MemOK
  <2> QED BY <2>2, <2>3 DEF MemOK, MbrPair, BackupOK
<1>2. CASE backup.holds = "junk"
  <2>1. mem' = [NoMem EXCEPT !.alignEnd = mem.alignEnd]
    BY <1>2 DEF BackupMem
  <2>2. /\ DOMAIN mem' = DOMAIN NoMem /\ mem'.parts = NoMem.parts /\ mem'.align = NoMem.align
        /\ mem'.mbr = NoMem.mbr /\ mem'.state = NoMem.state
    BY <2>1 DEF NoMem
  <2> QED BY <2>2, NoMemType, BlankTable, ProtectiveMbr DEF MemOK, States
<1>3. CASE backup.holds \notin {"gpt", "junk"}
  <2>1. mem' = mem
    BY <1>3 DEF BackupMem
  <2> QED BY <2>1 DEF MemOK
<1> QED BY <1>1, <1>2, <1>3

\* The start of a run.
LEMMA LoadedType ==
  ASSUME NEW parts \in Partitions, NEW mbr, MbrOK(mbr), NEW state \in States, state = "gpt" => NoData(mbr),
         mem' = Loaded(parts, mbr, state)
  PROVE  MemOK' /\ mem'.parts = parts /\ mem'.mbr = mbr /\ mem'.state = state
<1> DEFINE align == ComputeAlignment(parts, DefaultAlignment)
<1>1. align \in Nat \ {0}
  <2>1. parts \in Seq(AnyPart) /\ DefaultAlignment \in Nat \ {0}
    BY TableType, OptionsAssumption
  <2>2. align \in 1 .. DefaultAlignment
    BY <2>1, AlignmentType
  <2> HIDE DEF align
  <2> QED BY <2>1, <2>2
<1>2. mem' = [NoMem EXCEPT !.parts = parts, !.mbr = mbr, !.state = state, !.align = align]
  BY DEF Loaded
<1> HIDE DEF align
<1>3. /\ DOMAIN mem' = DOMAIN NoMem /\ mem'.parts = parts /\ mem'.align = align
      /\ mem'.mbr = mbr /\ mem'.state = state
  BY <1>2 DEF NoMem
<1> QED BY <1>1, <1>3, NoMemType DEF MemOK

LEMMA StateIs ==
  ASSUME NEW m
  PROVE  Mbr!StateOf(m) \in States /\ (Mbr!StateOf(m) = "gpt" => NoData(m))
BY DEF Mbr!StateOf, States, NoData

\* Which tables are loaded, with the MBR's.
LEMMA LoadsOneOf ==
  ASSUME DiskOK, mem' = LoadedMem
  PROVE  /\ MemOK'
         /\ \/ mem'.parts = disk.parts /\ mem'.mbr = disk.mbr /\ disk.gpt = "good" /\ disk.boot
            \/ mem'.mbr = Mbr!ProtectiveMBR
<1>1. CASE WhichWasUsed = "gpt" /\ MbrState # "invalid"
  <2>1. /\ mem' = Loaded(disk.parts, disk.mbr, MbrState) /\ MbrState = Mbr!StateOf(disk.mbr)
        /\ disk.gpt = "good" /\ disk.boot
    <3>1. mem' = Loaded(disk.parts, disk.mbr, MbrState)
      BY <1>1 DEF LoadedMem
    <3>2. disk.gpt = "good"
      BY <1>1 DEF WhichWasUsed
    <3>3. disk.boot
      BY <1>1 DEF MbrState
    <3> QED BY <3>1, <3>2, <3>3 DEF MbrState
  <2> DEFINE state == MbrState
  <2>2. state \in States /\ (state = "gpt" => NoData(disk.mbr))
    BY <2>1, StateIs
  <2>3. disk.parts \in Partitions /\ MbrOK(disk.mbr) /\ mem' = Loaded(disk.parts, disk.mbr, state)
    BY <2>1 DEF DiskOK
  <2> HIDE DEF state
  <2>4. MemOK' /\ mem'.parts = disk.parts /\ mem'.mbr = disk.mbr
    BY <2>2, <2>3, LoadedType
  <2> QED BY <2>1, <2>4
<1>2. CASE WhichWasUsed = "gpt" /\ MbrState = "invalid"
  <2>1. mem' = Loaded(disk.parts, Mbr!ProtectiveMBR, "gpt")
    BY <1>2 DEF LoadedMem
  <2> QED BY <2>1, ProtectiveMbr, LoadedType DEF DiskOK, States
<1>3. CASE WhichWasUsed = "mbr"
  <2>1. mem' = Loaded(Mbr!XFormPartitions(disk.mbr, NumParts), Mbr!ProtectiveMBR, "gpt")
    BY <1>3 DEF LoadedMem
  <2>2. Mbr!XFormPartitions(disk.mbr, NumParts) \in Partitions
    BY XFormed DEF DiskOK
  <2> QED BY <2>1, <2>2, ProtectiveMbr, LoadedType DEF States
<1>4. CASE WhichWasUsed = "new"
  <2>1. mem' = Loaded(Blank, Mbr!ProtectiveMBR, "gpt")
    BY <1>4 DEF LoadedMem
  <2> QED BY <2>1, BlankTable, ProtectiveMbr, LoadedType DEF States
<1>5. CASE WhichWasUsed = "abort"
  <2>1. mem' = Loaded(disk.parts, disk.mbr, MbrState) /\ MbrState = "mbr" /\ disk.gpt = "good"
    BY <1>5 DEF LoadedMem, WhichWasUsed
  <2>2. disk.boot
    BY <2>1 DEF MbrState
  <2> QED BY <2>1, <2>2, LoadedType DEF DiskOK, States
<1>6. WhichWasUsed \in {"gpt", "mbr", "new", "abort"}
  BY DEF WhichWasUsed
<1> QED BY <1>1, <1>2, <1>3, <1>4, <1>5, <1>6

LEMMA NewCreates ==
  ASSUME MemOK, OptNew \/ OptLargest
  PROVE  (Fails /\ auxStale' = auxStale) \/ \E n, start, part : Creates(n, start, part)
<1>1. DefaultStart \in Nat /\ LastFrom(DefaultStart) \in Nat
  BY DefaultsType
<1>2. CASE OptNew
  <2> DEFINE low == DefaultStart
             high == LastFrom(DefaultStart)
  <2>1. PICK n \in Numbers, a \in Starts, b \in Ends :
          LET start == IeeeToInt(a, low, high, low)
          IN  CreatePartition(IF n = 0 THEN FindFirstFreePart(mem.parts) ELSE n, start,
                              IeeeToInt(b, start, high, high))
    BY <1>2 DEF OptNew
  <2> DEFINE start == IeeeToInt(a, low, high, low)
             end == IeeeToInt(b, start, high, high)
             num == IF n = 0 THEN FindFirstFreePart(mem.parts) ELSE n
  <2>2. a.n \in Nat /\ b.n \in Nat
    BY OptionsAssumption
  <2>3. low \in Nat /\ high \in Nat
    BY <1>1
  <2>4. CreatePartition(num, start, end)
    BY <2>1
  <2> HIDE DEF low, high
  <2>5. start \in Nat
    BY <2>2, <2>3, SectorsAsked
  <2> HIDE DEF start
  <2>6. end \in Nat
    BY <2>2, <2>3, <2>5, SectorsAsked
  <2> HIDE DEF end, num
  <2>7. (Fails /\ auxStale' = auxStale) \/ \E part : Creates(num, start, part)
    BY <2>4, <2>5, <2>6, CreateCreates
  <2> QED BY <2>7
<1>3. CASE OptLargest
  <2> DEFINE start == DefaultStart
             end == LastFrom(DefaultStart)
  <2>1. PICK n \in Numbers :
          CreatePartition(IF n = 0 THEN FindFirstFreePart(mem.parts) ELSE n, start, end)
    BY <1>3 DEF OptLargest
  <2> DEFINE num == IF n = 0 THEN FindFirstFreePart(mem.parts) ELSE n
  <2>2. CreatePartition(num, start, end) /\ start \in Nat /\ end \in Nat
    BY <1>1, <2>1
  <2> HIDE DEF num, start, end
  <2>3. (Fails /\ auxStale' = auxStale) \/ \E part : Creates(num, start, part)
    BY <2>2, CreateCreates
  <2> QED BY <2>3
<1> QED BY <1>2, <1>3

LEMMA Same ==
  ASSUME DiskOK, BackupOK, MemOK, WiperOK, RetvalOK
  PROVE  /\ disk' = disk => DiskOK'
         /\ backup' = backup => BackupOK'
         /\ mem' = mem => MemOK'
         /\ wiper' = wiper => WiperOK'
         /\ retval' = retval => RetvalOK'
BY DEF DiskOK, BackupOK, MemOK, WiperOK, RetvalOK

\* A table in memory with another MBR.
LEMMA NewMbrType ==
  ASSUME MemOK, NEW m, MbrOK(m), mem' = [mem EXCEPT !.mbr = m, !.state = "mbr"]
  PROVE  MemOK' /\ mem'.parts = mem.parts /\ mem'.mbr = m
<1>1. /\ DOMAIN mem' = DOMAIN mem /\ mem'.parts = mem.parts /\ mem'.align = mem.align
      /\ mem'.mbr = m /\ mem'.state = "mbr"
  BY DEF MemOK
<1> QED BY <1>1 DEF MemOK, States

LEMMA TransposedType ==
  ASSUME MemOK, NEW n, NEW k, {n, k} \subseteq DOMAIN mem.parts,
         mem' = [mem EXCEPT !.parts[n] = mem.parts[k], !.parts[k] = mem.parts[n]]
  PROVE  /\ MemOK' /\ mem'.mbr = mem.mbr
         /\ UsedParts(mem'.parts) = UsedParts(mem.parts)
<1> DEFINE a == mem.parts
           b == [[a EXCEPT ![n] = a[k]] EXCEPT ![k] = a[n]]
<1>1. a \in Partitions /\ DOMAIN a = 1 .. NumParts /\ n \in DOMAIN a /\ k \in DOMAIN a
  BY DEF MemOK, Partitions
<1>2. b \in Partitions /\ DOMAIN b = DOMAIN a
  <2> HIDE DEF a
  <2> QED BY <1>1 DEF Partitions
<1>3. /\ DOMAIN mem' = DOMAIN mem /\ mem'.parts = b /\ mem'.align = mem.align
      /\ mem'.mbr = mem.mbr /\ mem'.state = mem.state
  BY DEF MemOK
<1>4. UsedParts(b) = UsedParts(a)
  <2> HIDE DEF a
  <2>1. \A i \in DOMAIN a : b[i] = IF i = k THEN a[n] ELSE IF i = n THEN a[k] ELSE a[i]
    BY <1>1
  <2> HIDE DEF b
  <2>2. ASSUME NEW p \in UsedParts(b) PROVE p \in UsedParts(a)
    BY <1>1, <1>2, <2>1, <2>2 DEF UsedParts
  <2>3. ASSUME NEW p \in UsedParts(a) PROVE p \in UsedParts(b)
    <3>1. PICK i \in DOMAIN a : p = a[i] /\ IsUsed(a[i])
      BY <2>3 DEF UsedParts
    <3>2. a[i] = b[IF i = n THEN k ELSE IF i = k THEN n ELSE i]
      BY <1>1, <2>1
    <3> QED BY <1>1, <1>2, <3>1, <3>2 DEF UsedParts
  <2> QED BY <2>2, <2>3
<1> HIDE DEF b, a
<1>5. MemOK'
  BY <1>2, <1>3 DEF MemOK
<1> QED BY <1>3, <1>4, <1>5 DEF a

LEMMA OptionTypes ==
  ASSUME TypeInv, TakeOption
  PROVE  DiskOK' /\ BackupOK' /\ MemOK' /\ WiperOK' /\ RetvalOK'
<1> USE Same DEF TypeInv
<1>1. CASE OptNew \/ OptLargest
  <2>1. CASE Fails
    <3>1. UNCHANGED <<disk, backup, mem, retval, wiper>>
      BY <2>1 DEF Fails
    <3> QED BY <3>1
  <2>2. CASE \E n, start, part : Creates(n, start, part)
    <3>1. PICK n, start, part : Creates(n, start, part)
      BY <2>2
    <3> QED BY <3>1, CreatedType
  <2> QED BY <1>1, <2>1, <2>2, NewCreates
<1>2. CASE OptDelete
  <2>1. PICK n \in Numbers :
          IF MayDelete(n)
          THEN /\ mem' = DeletedIn(mem, n)
               /\ wiper' = IF IsUsed(mem.parts[n]) THEN ForgetRange(mem.parts[n]) ELSE wiper
               /\ UNCHANGED <<disk, backup, retval>>
          ELSE Fails
    BY <1>2 DEF OptDelete
  <2>2. CASE MayDelete(n)
    <3>1. n \in Int
      BY OptionsAssumption DEF Numbers
    <3> DEFINE m == DeletedIn(mem, n)
    <3>2. /\ DOMAIN m = DOMAIN mem /\ m.align = mem.align /\ m.parts \in Partitions
          /\ MbrPair([mbr |-> m.mbr, state |-> m.state])
      BY <2>2, <3>1, DeletedType
    <3> HIDE DEF m
    <3>3. mem' = m
      BY <2>1, <2>2 DEF m
    <3>4. MemOK'
      BY <3>2, <3>3 DEF MemOK, MbrPair
    <3>5. WiperOK'
      BY <2>1, <2>2, ForgottenType
    <3> QED BY <2>1, <2>2, <3>4, <3>5
  <2>3. CASE ~MayDelete(n)
    <3>1. UNCHANGED <<disk, backup, mem, retval, wiper>>
      BY <2>1, <2>3 DEF Fails
    <3> QED BY <3>1
  <2> QED BY <2>2, <2>3
<1>3. CASE OptTranspose
  <2>1. UNCHANGED <<disk, backup, retval, wiper>>
    BY <1>3 DEF OptTranspose, Fails
  <2>2. PICK n, k \in Numbers :
          \/ /\ {n, k} \subseteq DOMAIN mem.parts
             /\ mem' = [mem EXCEPT !.parts[n] = mem.parts[k], !.parts[k] = mem.parts[n]]
          \/ mem' = mem
    BY <1>3 DEF OptTranspose, Fails
  <2>3. CASE mem' = mem
    BY <2>1, <2>3
  <2>4. CASE mem' # mem
    <3>1. /\ {n, k} \subseteq DOMAIN mem.parts
          /\ mem' = [mem EXCEPT !.parts[n] = mem.parts[k], !.parts[k] = mem.parts[n]]
      BY <2>2, <2>4
    <3>2. MemOK
      OBVIOUS
    <3>3. MemOK'
      BY ONLY <3>1, <3>2, TransposedType
    <3> QED BY <2>1, <3>3
  <2> QED BY <2>3, <2>4
<1>4. CASE OptEdit \/ OptAttributes \/ OptTouch \/ OptMbrToGpt
  <2>1. UNCHANGED <<disk, backup, mem, retval, wiper>>
    BY <1>4 DEF OptEdit, OptAttributes, OptTouch, OptMbrToGpt, Fails
  <2> QED BY <2>1
<1>5. CASE OptAlignment
  <2>1. UNCHANGED <<disk, backup, retval, wiper>>
    BY <1>5 DEF OptAlignment
  <2>2. (\E a \in Alignments : mem' = [mem EXCEPT !.align = a]) \/ mem' = [mem EXCEPT !.alignEnd = TRUE]
    BY <1>5 DEF OptAlignment
  <2>3. /\ DOMAIN mem' = DOMAIN mem /\ mem'.parts = mem.parts /\ mem'.align \in Nat \ {0}
        /\ mem'.mbr = mem.mbr /\ mem'.state = mem.state
    BY <2>2, OptionsAssumption DEF MemOK
  <2>4. MemOK'
    BY <2>3 DEF MemOK
  <2> QED BY <2>1, <2>4
<1>6. CASE OptHybrid
  <2>1. UNCHANGED <<disk, backup, retval, wiper>>
    BY <1>6 DEF OptHybrid
  <2>2. PICK list \in Lists, eeLast \in BOOLEAN :
          \/ /\ Mbr!BuildMBR(mem.parts, list, TRUE, eeLast).ok
             /\ mem' = [mem EXCEPT !.mbr = Mbr!BuildMBR(mem.parts, list, TRUE, eeLast).mbr, !.state = "mbr"]
          \/ mem' = mem
    BY <1>6 DEF OptHybrid
  <2> DEFINE built == Mbr!BuildMBR(mem.parts, list, TRUE, eeLast)
  <2>3. CASE built.ok /\ mem' = [mem EXCEPT !.mbr = built.mbr, !.state = "mbr"]
    <3>1. MbrOK(built.mbr)
      BY <2>3, BuiltMbr, OptionsAssumption DEF MemOK
    <3> HIDE DEF built
    <3>2. MemOK'
      BY <2>3, <3>1, NewMbrType
    <3> QED BY <2>1, <3>2
  <2> QED BY <2>1, <2>2, <2>3
<1>7. CASE OptGptToMbr
  <2>1. UNCHANGED <<backup, retval, wiper>>
    BY <1>7 DEF OptGptToMbr
  <2>2. PICK list \in Lists :
          LET built == Mbr!BuildMBR(mem.parts, list, FALSE, FALSE)
          IN  \/ /\ built.ok
                 /\ mem' = [mem EXCEPT !.mbr = built.mbr, !.state = "mbr"]
                 /\ disk' \in {disk, [gpt |-> "none", parts |-> Blank, boot |-> TRUE, mbr |-> built.mbr]}
              \/ mem' = mem /\ disk' = disk
    BY <1>7 DEF OptGptToMbr
  <2> DEFINE built == Mbr!BuildMBR(mem.parts, list, FALSE, FALSE)
             new == [gpt |-> "none", parts |-> Blank, boot |-> TRUE, mbr |-> built.mbr]
  <2>3. CASE built.ok /\ mem' = [mem EXCEPT !.mbr = built.mbr, !.state = "mbr"] /\ disk' \in {disk, new}
    <3>1. MbrOK(built.mbr)
      BY <2>3, BuiltMbr, OptionsAssumption DEF MemOK
    <3>2. /\ DOMAIN new = {"gpt", "parts", "boot", "mbr"} /\ new.gpt = "none" /\ new.parts = Blank
          /\ new.boot = TRUE /\ new.mbr = built.mbr
      OBVIOUS
    <3> HIDE DEF built, new
    <3>3. MemOK'
      BY <2>3, <3>1, NewMbrType
    <3>4. disk' = new => DiskOK'
      BY <3>1, <3>2, BlankTable DEF DiskOK
    <3> QED BY <2>1, <2>3, <3>3, <3>4
  <2> QED BY <2>1, <2>2, <2>3
<1>8. CASE OptReplicate
  BY <1>8 DEF OptReplicate, RetvalOK
<1>9. CASE OptClear
  <2>1. UNCHANGED <<disk, backup, retval>> /\ wiper' = <<>>
        /\ mem' = [mem EXCEPT !.parts = Blank, !.align = DefaultAlignment]
    BY <1>9 DEF OptClear, AnyOption
  <2>2. /\ DOMAIN mem' = DOMAIN mem /\ mem'.parts = Blank /\ mem'.align = DefaultAlignment
        /\ mem'.mbr = mem.mbr /\ mem'.state = mem.state
    BY <2>1 DEF MemOK
  <2>3. MemOK'
    BY <2>2, BlankTable, OptionsAssumption DEF MemOK
  <2> QED BY <2>1, <2>3, NothingToWipe
<1>10. CASE OptBackup
  <2>1. UNCHANGED <<disk, mem, retval, wiper>>
        /\ backup' = [holds |-> "gpt", size |-> DiskSize, parts |-> mem.parts, mbr |-> mem.mbr]
    BY <1>10 DEF OptBackup
  <2>2. backup'.holds = "gpt" /\ backup'.parts = mem.parts /\ backup'.mbr = mem.mbr
    BY <2>1
  <2>3. BackupOK'
    BY <2>2 DEF BackupOK, MemOK
  <2> QED BY <2>1, <2>3
<1>11. CASE OptLoadBackup
  <2>1. UNCHANGED <<disk, backup, retval>> /\ wiper' = <<>> /\ mem' = BackupMem
    BY <1>11 DEF OptLoadBackup, AnyOption
  <2> QED BY <2>1, NothingToWipe, BackupMemType
<1>12. CASE OptZap
  <2>1. UNCHANGED <<backup, mem, retval>> /\ wiper' = <<>>
    BY <1>12 DEF OptZap, AnyOption
  <2>2. \/ disk' = disk
        \/ disk' = [gpt |-> "none", parts |-> Blank, boot |-> FALSE, mbr |-> Mbr!EmptyMBR]
        \/ disk' = [disk EXCEPT !.gpt = "none", !.parts = Blank]
    BY <1>12 DEF OptZap
  <2>3. CASE disk' = [gpt |-> "none", parts |-> Blank, boot |-> FALSE, mbr |-> Mbr!EmptyMBR]
    <3>1. DOMAIN disk' = {"gpt", "parts", "boot", "mbr"} /\ disk'.gpt = "none" /\ disk'.parts = Blank
          /\ disk'.boot = FALSE /\ disk'.mbr = Mbr!EmptyMBR
      BY <2>3
    <3>2. DiskOK'
      BY <3>1, BlankTable, EmptyMbr DEF DiskOK
    <3> QED BY <2>1, <3>2, NothingToWipe
  <2>4. CASE disk' = [disk EXCEPT !.gpt = "none", !.parts = Blank]
    <3>1. DOMAIN disk' = DOMAIN disk /\ disk'.gpt = "none" /\ disk'.parts = Blank
          /\ disk'.boot = disk.boot /\ disk'.mbr = disk.mbr
      BY <2>4 DEF DiskOK
    <3>2. DiskOK'
      BY <3>1, BlankTable DEF DiskOK
    <3> QED BY <2>1, <3>2, NothingToWipe
  <2> QED BY <2>1, <2>2, <2>3, <2>4, NothingToWipe
<1> QED BY <1>1, <1>2, <1>3, <1>4, <1>5, <1>6, <1>7, <1>8, <1>9, <1>10, <1>11, <1>12 DEF TakeOption

LEMMA RangesAre ==
  ASSUME WiperOK
  PROVE  /\ Ranges \in Seq(AnyPart)
         /\ {Ranges[i] : i \in 1 .. Len(Ranges)} \subseteq {wiper[i] : i \in 1 .. Len(wiper)}
         /\ (\A i \in 1 .. Len(wiper) : wiper[i].first <= wiper[i].last) => Ranges = wiper
<1> DEFINE N == Len(wiper)
           Stops(k) == /\ \A i \in 1 .. k : wiper[i].first <= wiper[i].last
                       /\ k < N => wiper[k + 1].first > wiper[k + 1].last
           K == CHOOSE k \in 0 .. N : Stops(k)
<1>1. wiper \in Seq(AnyPart) /\ N \in Nat /\ \A i \in 1 .. N : wiper[i] \in AnyPart
  BY DEF WiperOK
<1>2. \E k \in 0 .. N : Stops(k)
  <2>1. CASE \A i \in 1 .. N : wiper[i].first <= wiper[i].last
    <3>1. Stops(N) /\ N \in 0 .. N
      BY <1>1, <2>1
    <3> QED BY <3>1
  <2>2. CASE \E i \in 1 .. N : ~(wiper[i].first <= wiper[i].last)
    <3> DEFINE S == {i \in 1 .. N : ~(wiper[i].first <= wiper[i].last)}
    <3>1. S \subseteq Nat /\ S # {}
      BY <1>1, <2>2
    <3> HIDE DEF S
    <3>2. PICK i \in S : \A j \in S : i <= j
      BY <3>1, LeastNumber
    <3>3. i \in 1 .. N /\ ~(wiper[i].first <= wiper[i].last)
      BY <3>2 DEF S
    <3> DEFINE k == i - 1
    <3>4. k \in 0 .. N /\ k + 1 = i /\ k < N
      BY <1>1, <3>3
    <3>5. wiper[i].first \in Nat /\ wiper[i].last \in Nat
      BY <1>1, <3>3 DEF AnyPart
    <3>6. ASSUME NEW j \in 1 .. k PROVE wiper[j].first <= wiper[j].last
      <4>1. j \in 1 .. N /\ ~(i <= j)
        BY <1>1, <3>3
      <4> QED BY <3>2, <4>1 DEF S
    <3> HIDE DEF k
    <3>7. Stops(k)
      BY <3>3, <3>4, <3>5, <3>6
    <3> QED BY <3>4, <3>7
  <2> QED BY <2>1, <2>2
<1>3. K \in 0 .. N /\ Stops(K)
  <2> HIDE DEF Stops, N
  <2> QED BY <1>2
<1>4. Ranges = SubSeq(wiper, 1, K)
  BY DEF Ranges
<1> HIDE DEF K
<1>5. Len(Ranges) = K /\ Ranges \in Seq(AnyPart) /\ \A i \in 1 .. K : Ranges[i] = wiper[i]
  BY <1>1, <1>3, <1>4
<1>6. ASSUME \A i \in 1 .. Len(wiper) : wiper[i].first <= wiper[i].last
      PROVE  Ranges = wiper
  <2>1. K = N
    <3>1. CASE K < N
      <4>1. K + 1 \in 1 .. N /\ wiper[K + 1].first > wiper[K + 1].last
        BY <1>1, <1>3, <3>1
      <4>2. wiper[K + 1].first \in Nat /\ wiper[K + 1].last \in Nat
        BY <1>1, <4>1 DEF AnyPart
      <4> QED BY <1>6, <4>1, <4>2
    <3> QED BY <1>1, <1>3, <3>1
  <2> QED BY <1>1, <1>4, <2>1
<1> QED BY <1>1, <1>3, <1>5, <1>6

\* Each write of the wiper is in one of its ranges, and each range gets both.
LEMMA WritesAre ==
  ASSUME WiperOK
  PROVE  /\ Len(WipeWrites) = 2 * Len(Ranges) /\ Len(Ranges) \in Nat /\ DOMAIN WipeWrites = 1 .. 2 * Len(Ranges)
         /\ \A i \in 1 .. Len(WipeWrites) :
              \E r \in {Ranges[j] : j \in 1 .. Len(Ranges)} : WipeWrites[i] \in {FrontOf(r), BackOf(r)}
         /\ \A r \in {Ranges[j] : j \in 1 .. Len(Ranges)} :
              \E i, k \in 1 .. Len(WipeWrites) : WipeWrites[i] = FrontOf(r) /\ WipeWrites[k] = BackOf(r)
<1> DEFINE N == Len(Ranges)
           W == WipeWrites
<1>1. Ranges \in Seq(AnyPart) /\ N \in Nat
  BY RangesAre
<1>2. W = [i \in 1 .. 2 * N |-> IF i % 2 = 1 THEN FrontOf(Ranges[(i + 1) \div 2]) ELSE BackOf(Ranges[i \div 2])]
  BY DEF WipeWrites
<1> HIDE DEF W, N
<1>3. DOMAIN W = 1 .. 2 * N /\ 2 * N \in Nat
  BY <1>1, <1>2
<1>4. Len(W) = 2 * N
  <2> DEFINE M == 2 * N
             E(i) == IF i % 2 = 1 THEN FrontOf(Ranges[(i + 1) \div 2]) ELSE BackOf(Ranges[i \div 2])
  <2>1. W = [i \in 1 .. M |-> E(i)] /\ M \in Nat
    BY <1>2, <1>3
  <2> HIDE DEF M, E
  <2>2. Len(W) = M
    BY <2>1
  <2> QED BY <2>2 DEF M
<1>5. ASSUME NEW i \in 1 .. 2 * N
      PROVE  \E r \in {Ranges[j] : j \in 1 .. N} : W[i] \in {FrontOf(r), BackOf(r)}
  <2>1. CASE i % 2 = 1
    <3>1. (i + 1) \div 2 \in 1 .. N
      BY <1>1, <2>1
    <3>2. W[i] = FrontOf(Ranges[(i + 1) \div 2])
      BY <1>2, <2>1
    <3> QED BY <3>1, <3>2
  <2>2. CASE i % 2 # 1
    <3>1. i \div 2 \in 1 .. N
      BY <1>1, <2>2
    <3>2. W[i] = BackOf(Ranges[i \div 2])
      BY <1>2, <2>2
    <3> QED BY <3>1, <3>2
  <2> QED BY <2>1, <2>2
<1>6. ASSUME NEW j \in 1 .. N
      PROVE  \E i, k \in 1 .. 2 * N : W[i] = FrontOf(Ranges[j]) /\ W[k] = BackOf(Ranges[j])
  <2> DEFINE i == 2 * j - 1
             k == 2 * j
  <2>1. i \in 1 .. 2 * N /\ i % 2 = 1 /\ (i + 1) \div 2 = j
    BY <1>1
  <2>2. k \in 1 .. 2 * N /\ k % 2 # 1 /\ k \div 2 = j
    BY <1>1
  <2> HIDE DEF i, k
  <2>3. W[i] = FrontOf(Ranges[j]) /\ W[k] = BackOf(Ranges[j])
    BY <1>2, <2>1, <2>2
  <2> QED BY <2>1, <2>2, <2>3
<1>7. ASSUME NEW r \in {Ranges[j] : j \in 1 .. N}
      PROVE  \E i, k \in 1 .. 2 * N : W[i] = FrontOf(r) /\ W[k] = BackOf(r)
  <2>1. PICK j \in 1 .. N : r = Ranges[j]
    BY <1>7
  <2> QED BY <1>6, <2>1
<1>8. /\ \A i \in 1 .. Len(W) : \E r \in {Ranges[j] : j \in 1 .. N} : W[i] \in {FrontOf(r), BackOf(r)}
      /\ \A r \in {Ranges[j] : j \in 1 .. N} :
           \E i, k \in 1 .. Len(W) : W[i] = FrontOf(r) /\ W[k] = BackOf(r)
  BY <1>4, <1>5, <1>7, Zenon
<1> QED BY <1>1, <1>3, <1>4, <1>8 DEF N, W

EndsOf(S) == UNION {FrontOf(r) \union BackOf(r) : r \in S}
RangeSet == {Ranges[i] : i \in 1 .. Len(Ranges)}

LEMMA WipedIs ==
  ASSUME WiperOK, LeftOK, Wipe
  PROVE  /\ LeftOK' /\ zeroed' \subseteq EndsOf(RangeSet)
         /\ left'.faults = Faults => zeroed' = EndsOf(RangeSet)
<1> DEFINE W == WipeWrites
           N == Len(W)
           Z(k) == UNION {W[i] : i \in 1 .. k}
<1>1. PICK k \in 0 .. N :
        /\ zeroed' = Z(k)
        /\ k < N => left.faults > 0
        /\ left' = IF k < N THEN [left EXCEPT !.faults = @ - 1] ELSE left
  BY DEF Wipe
<1>2. /\ N \in Nat
      /\ \A i \in 1 .. N : \E r \in RangeSet : W[i] \in {FrontOf(r), BackOf(r)}
      /\ \A r \in RangeSet : \E i, j \in 1 .. N : W[i] = FrontOf(r) /\ W[j] = BackOf(r)
  <2>1. /\ \A i \in 1 .. N : \E r \in RangeSet : W[i] \in {FrontOf(r), BackOf(r)}
        /\ \A r \in RangeSet : \E i, j \in 1 .. N : W[i] = FrontOf(r) /\ W[j] = BackOf(r)
    BY WritesAre DEF RangeSet
  <2>2. Len(WipeWrites) = 2 * Len(Ranges) /\ Len(Ranges) \in Nat
    BY WritesAre
  <2> QED BY <2>1, <2>2
<1>3. left.faults \in 0 .. Faults /\ Faults \in Nat /\ DOMAIN left = {"runs", "options", "faults"}
  BY OptionsAssumption DEF LeftOK
<1>4. k < N => left' = [left EXCEPT !.faults = @ - 1] /\ left'.faults = left.faults - 1 /\ left'.faults < Faults
  BY <1>1, <1>3
<1>5. LeftOK'
  <2>1. CASE k < N
    <3>1. DOMAIN left' = DOMAIN left /\ left'.faults = left.faults - 1 /\ left.faults > 0
      BY <1>1, <1>4, <2>1
    <3> QED BY <1>3, <3>1 DEF LeftOK
  <2>2. CASE ~(k < N)
    <3>1. left' = left
      BY <1>1, <2>2
    <3> QED BY <3>1 DEF LeftOK
  <2> QED BY <2>1, <2>2
<1> HIDE DEF W, N
<1>6. ASSUME NEW s \in Z(k) PROVE s \in EndsOf(RangeSet)
  <2>1. PICK i \in 1 .. k : s \in W[i]
    OBVIOUS
  <2>2. i \in 1 .. N
    BY <1>2
  <2>3. PICK r \in RangeSet : W[i] \in {FrontOf(r), BackOf(r)}
    BY <1>2, <2>2
  <2> QED BY <2>1, <2>3 DEF EndsOf
<1>7. ASSUME NEW s \in EndsOf(RangeSet) PROVE s \in Z(N)
  <2>1. PICK r \in RangeSet : s \in FrontOf(r) \union BackOf(r)
    BY DEF EndsOf
  <2>2. PICK i \in 1 .. N, j \in 1 .. N : W[i] = FrontOf(r) /\ W[j] = BackOf(r)
    BY <1>2
  <2> QED BY <2>1, <2>2
<1>8. ASSUME left'.faults = Faults PROVE zeroed' = EndsOf(RangeSet)
  <2>1. ~(k < N)
    BY <1>3, <1>4, <1>8
  <2>2. k = N
    BY <1>2, <2>1
  <2> QED BY <1>1, <1>6, <1>7, <2>2
<1>9. zeroed' \subseteq EndsOf(RangeSet)
  BY <1>1, <1>6
<1> QED BY <1>5, <1>8, <1>9

LEMMA EndsInDisk ==
  ASSUME WiperOK
  PROVE  EndsOf(RangeSet) \subseteq 0 .. DiskSize - 1
<1> SUFFICES ASSUME NEW s \in EndsOf(RangeSet) PROVE s \in 0 .. DiskSize - 1
  OBVIOUS
<1>1. PICK r \in RangeSet : s \in FrontOf(r) \union BackOf(r)
  BY DEF EndsOf
<1>2. s \in r.first .. r.last
  BY <1>1 DEF FrontOf, BackOf
<1>3. PICK i \in 1 .. Len(wiper) : r = wiper[i]
  BY RangesAre DEF RangeSet
<1>4. r \in AnyPart /\ r.last < DiskSize
  BY <1>3 DEF WiperOK
<1> QED BY <1>2, <1>4, Widths DEF AnyPart

LEMMA FinalType ==
  ASSUME RetvalOK
  PROVE  Final(retval) \in {0, 1, 2, 3, 4, 8} /\ Final(4) \in {0, 1, 2, 3, 4, 8}
BY DEF RetvalOK, Final

LEMMA DiskIs ==
  ASSUME NEW d, NEW mbr, NEW parts, NEW boot \in BOOLEAN, NEW gpt \in {"good", "none", "torn"},
         parts \in Partitions, MbrOK(mbr), d = [gpt |-> gpt, parts |-> parts, boot |-> boot, mbr |-> mbr],
         disk' = d
  PROVE  DiskOK'
<1>1. /\ DOMAIN disk' = {"gpt", "parts", "boot", "mbr"} /\ disk'.gpt = gpt /\ disk'.parts = parts
      /\ disk'.boot = boot /\ disk'.mbr = mbr
  OBVIOUS
<1> QED BY <1>1 DEF DiskOK

LEMMA NoMemOK == mem' = NoMem => MemOK'
<1> SUFFICES ASSUME mem' = NoMem PROVE MemOK'
  OBVIOUS
<1> QED BY NoMemType, BlankTable, ProtectiveMbr DEF MemOK, States

LEMMA LoadedMbr ==
  ASSUME DiskOK
  PROVE  /\ MbrOK(LoadedMem.mbr)
         /\ Matches(disk.mbr, disk.parts) \/ ~(disk.gpt = "good" /\ disk.boot) => Matches(LoadedMem.mbr, disk.parts)
<1>1. \A parts, mbr, state : Loaded(parts, mbr, state).mbr = mbr
  BY DEF Loaded, NoMem
<1>2. \/ LoadedMem.mbr = disk.mbr /\ disk.gpt = "good" /\ disk.boot
      \/ LoadedMem.mbr = Mbr!ProtectiveMBR
  <2>1. CASE WhichWasUsed = "gpt" /\ MbrState # "invalid"
    <3>1. LoadedMem = Loaded(disk.parts, disk.mbr, MbrState)
      BY <2>1 DEF LoadedMem
    <3>2. disk.gpt = "good"
      BY <2>1 DEF WhichWasUsed
    <3>3. disk.boot
      BY <2>1 DEF MbrState
    <3> QED BY <1>1, <3>1, <3>2, <3>3
  <2>2. CASE WhichWasUsed = "gpt" /\ MbrState = "invalid"
    <3>1. LoadedMem = Loaded(disk.parts, Mbr!ProtectiveMBR, "gpt")
      BY <2>2 DEF LoadedMem
    <3> QED BY <1>1, <3>1
  <2>3. CASE WhichWasUsed = "mbr"
    <3>1. LoadedMem = Loaded(Mbr!XFormPartitions(disk.mbr, NumParts), Mbr!ProtectiveMBR, "gpt")
      BY <2>3 DEF LoadedMem
    <3> QED BY <1>1, <3>1
  <2>4. CASE WhichWasUsed = "new"
    <3>1. LoadedMem = Loaded(Blank, Mbr!ProtectiveMBR, "gpt")
      BY <2>4 DEF LoadedMem
    <3> QED BY <1>1, <3>1
  <2>5. CASE WhichWasUsed = "abort"
    <3>1. LoadedMem = Loaded(disk.parts, disk.mbr, MbrState)
      BY <2>5 DEF LoadedMem, WhichWasUsed
    <3>2. MbrState = "mbr" /\ disk.gpt = "good"
      BY <2>5 DEF WhichWasUsed
    <3>3. disk.boot
      BY <3>2 DEF MbrState
    <3> QED BY <1>1, <3>1, <3>2, <3>3
  <2>6. WhichWasUsed \in {"gpt", "mbr", "new", "abort"}
    BY DEF WhichWasUsed
  <2> QED BY <2>1, <2>2, <2>3, <2>4, <2>5, <2>6
<1>3. MbrOK(disk.mbr)
  BY DEF DiskOK
<1>4. Matches(Mbr!ProtectiveMBR, disk.parts)
  BY ProtectiveMbr DEF NoData, Matches
<1> QED BY <1>2, <1>3, <1>4, ProtectiveMbr

LEMMA HybridOnDisk ==
  ASSUME DiskOK, GdiskHybrid
  PROVE  /\ DiskOK' /\ disk'.gpt = "good" /\ disk'.parts = disk.parts
         /\ (disk.boot => Matches(disk.mbr, disk.parts)) => Matches(disk'.mbr, disk'.parts)
<1>1. PICK list \in Lists, eeFirst \in BOOLEAN, protect \in BOOLEAN :
        disk' = [disk EXCEPT !.boot = TRUE,
                   !.mbr = Mbr!MakeHybrid(LoadedMem.mbr, disk.parts, list, eeFirst, protect)]
  BY DEF GdiskHybrid
<1> DEFINE m == Mbr!MakeHybrid(LoadedMem.mbr, disk.parts, list, eeFirst, protect)
<1>2. list \in Seq(Nat)
  BY OptionsAssumption
<1>3. MbrOK(m) /\ (Matches(LoadedMem.mbr, disk.parts) => Matches(m, disk.parts))
  BY <1>2, LoadedMbr, HybridMbrIs DEF DiskOK
<1> HIDE DEF m
<1>4. disk' = [disk EXCEPT !.boot = TRUE, !.mbr = m]
  BY <1>1 DEF m
<1>5. /\ DOMAIN disk' = DOMAIN disk /\ disk'.gpt = disk.gpt /\ disk'.parts = disk.parts
      /\ disk'.boot = TRUE /\ disk'.mbr = m
  BY <1>4 DEF DiskOK
<1>6. DiskOK'
  BY <1>3, <1>5 DEF DiskOK
<1>7. disk.gpt = "good"
  BY DEF GdiskHybrid
<1>8. (disk.boot => Matches(disk.mbr, disk.parts)) => Matches(LoadedMem.mbr, disk.parts)
  BY LoadedMbr
<1> QED BY <1>3, <1>5, <1>6, <1>7, <1>8

LEMMA TypeInductive ==
  ASSUME TypeInv, [Next]_vars
  PROVE  TypeInv'
<1>1. AskedInv'
  BY AskedInductive DEF TypeInv
<1>2. DiskOK /\ BackupOK /\ MemOK /\ WiperOK /\ RetvalOK /\ LeftOK /\ zeroed \subseteq 0 .. DiskSize - 1
  BY DEF TypeInv
<1>3. /\ (left' = left => LeftOK')
      /\ (left' = [left EXCEPT !.runs = @ - 1] => LeftOK')
  BY <1>2 DEF LeftOK
<1>4. CASE Start
  <2>1. mem' = LoadedMem /\ left' = [left EXCEPT !.runs = @ - 1] /\ retval' \in {0, 2}
        /\ wiper' = <<>> /\ zeroed' = {} /\ UNCHANGED <<disk, backup>>
    BY <1>4 DEF Start
  <2>2. MemOK'
    BY <1>2, <2>1, LoadsOneOf
  <2>3. RetvalOK'
    BY <2>1 DEF RetvalOK
  <2>4. WiperOK' /\ DiskOK' /\ BackupOK' /\ LeftOK'
    BY <1>2, <1>3, <2>1, Same, NothingToWipe
  <2> QED BY <1>1, <2>1, <2>2, <2>3, <2>4 DEF TypeInv
<1>5. CASE UnknownWipeMode \/ Exit
  <2>1. mem' = NoMem /\ left' \in {left, [left EXCEPT !.runs = @ - 1]} /\ retval' \in {0, 1}
        /\ wiper' = <<>> /\ zeroed' = {} /\ UNCHANGED <<disk, backup>>
    BY <1>5 DEF UnknownWipeMode, Exit
  <2>2. RetvalOK'
    BY <2>1 DEF RetvalOK
  <2>3. WiperOK' /\ DiskOK' /\ BackupOK' /\ LeftOK'
    BY <1>2, <1>3, <2>1, Same, NothingToWipe
  <2> QED BY <1>1, <2>1, <2>2, <2>3, NoMemOK DEF TypeInv
<1>6. CASE TakeOption
  <2>1. zeroed' = zeroed
    BY <1>6 DEF TakeOption, OptNew, OptLargest, OptDelete, OptTranspose, OptEdit, OptTouch, OptAlignment,
                OptMbrToGpt, OptHybrid, OptGptToMbr, OptClear, OptBackup, OptLoadBackup, OptZap,
                OptReplicate, OptAttributes, Option, OptionWith, AnyOption
  <2>2. LeftOK'
    BY <1>2, <1>6, OptionsLeft
  <2>3. DiskOK' /\ BackupOK' /\ MemOK' /\ WiperOK' /\ RetvalOK'
    BY <1>6, OptionTypes
  <2> QED BY <1>1, <1>2, <2>1, <2>2, <2>3 DEF TypeInv
<1>7. CASE EndOptions
  <2>1. UNCHANGED <<disk, backup, mem, wiper, zeroed, left>> /\ retval' \in {retval, Final(retval)}
    BY <1>7 DEF EndOptions
  <2>2. RetvalOK'
    BY <1>2, <2>1, FinalType DEF RetvalOK
  <2> QED BY <1>1, <1>2, <1>3, <2>1, <2>2, Same DEF TypeInv
<1>8. CASE Wipe
  <2>1. UNCHANGED <<disk, backup, mem, retval, wiper>>
    BY <1>8 DEF Wipe
  <2>2. LeftOK' /\ zeroed' \subseteq EndsOf(RangeSet)
    BY <1>2, <1>8, WipedIs
  <2>3. zeroed' \subseteq 0 .. DiskSize - 1
    BY <1>2, <2>2, EndsInDisk
  <2> QED BY <1>1, <1>2, <2>1, <2>2, <2>3, Same DEF TypeInv
<1>9. CASE Save
  <2>1. UNCHANGED <<backup, mem, wiper, zeroed, left>> /\ retval' = Final(retval)
        /\ disk' = [gpt |-> "good", parts |-> mem.parts, boot |-> TRUE, mbr |-> mem.mbr]
    BY <1>9 DEF Save
  <2>2. RetvalOK'
    BY <1>2, <2>1, FinalType DEF RetvalOK
  <2>3. DiskOK'
    BY <1>2, <2>1, DiskIs DEF MemOK
  <2> QED BY <1>1, <1>2, <1>3, <2>1, <2>2, <2>3, Same DEF TypeInv
<1>10. CASE SaveFails
  <2>1. UNCHANGED <<backup, mem, wiper, zeroed>> /\ retval' = Final(4)
    BY <1>10 DEF SaveFails
  <2>2. RetvalOK'
    BY <1>2, <2>1, FinalType DEF RetvalOK
  <2>3. disk' = disk \/ disk' = [disk EXCEPT !.gpt = "torn"]
    BY <1>10 DEF SaveFails
  <2>4. DiskOK'
    BY <1>2, <2>3 DEF DiskOK
  <2>5. LeftOK'
    <3>1. left' = left \/ (left.faults > 0 /\ left' = [left EXCEPT !.faults = @ - 1])
      BY <1>10 DEF SaveFails
    <3>2. CASE left.faults > 0 /\ left' = [left EXCEPT !.faults = @ - 1]
      <4>1. DOMAIN left' = DOMAIN left /\ left'.faults = left.faults - 1 /\ left.faults \in 0 .. Faults
            /\ Faults \in Nat /\ left.faults > 0
        BY <1>2, <3>2, OptionsAssumption DEF LeftOK
      <4> QED BY <1>2, <4>1 DEF LeftOK
    <3> QED BY <1>3, <3>1, <3>2
  <2> QED BY <1>1, <1>2, <2>1, <2>2, <2>4, <2>5, Same DEF TypeInv
<1>11. CASE GdiskHybrid
  <2>1. UNCHANGED <<backup, mem, retval, wiper, zeroed, left>>
    BY <1>11 DEF GdiskHybrid
  <2>2. DiskOK'
    BY <1>2, <1>11, HybridOnDisk
  <2> QED BY <1>1, <1>2, <1>3, <2>1, <2>2, Same DEF TypeInv
<1>12. CASE UNCHANGED vars
  <2>1. UNCHANGED <<disk, backup, mem, retval, wiper, zeroed, left>>
    BY <1>12 DEF vars
  <2> QED BY <1>1, <1>2, <1>3, <2>1, Same DEF TypeInv
<1> QED BY <1>4, <1>5, <1>6, <1>7, <1>8, <1>9, <1>10, <1>11, <1>12 DEF Next

LEMMA MbrFits ==
  ASSUME NEW m \in [Mbr!Slots -> MbrEntry],
         \A i \in Mbr!Slots : m[i].type = "data" => m[i].start + m[i].len < Max32
  PROVE  MbrOK(m)
<1>1. ASSUME NEW i \in Mbr!Slots PROVE EntryOK(m[i])
  <2>1. m[i] \in MbrEntry
    OBVIOUS
  <2>2. DOMAIN m[i] = EntryFields /\ m[i].type \in {"none", "ee", "ext", "data"}
        /\ m[i].start \in 0 .. Max32 /\ m[i].len \in 0 .. Max32
    BY <2>1 DEF MbrEntry, EntryFields
  <2> QED BY <2>2, Widths DEF EntryOK
<1> QED BY <1>1 DEF MbrOK

LEMMA TypeInit ==
  ASSUME Init
  PROVE  TypeInv
<1>1. AskedInv
  <2>1. pc = "idle" /\ flags = NoFlags /\ aux = NoAux
    BY DEF Init
  <2>2. NoFlags \in Flags
    BY Zenon DEF NoFlags, Flags
  <2>3. DOMAIN NoAux = AuxFields /\ NoAux.asked = {}
    BY DEF NoAux, AuxFields
  <2> QED BY <2>1, <2>2, <2>3 DEF AskedInv
<1>2. DiskOK
  <2>1. /\ disk \in [gpt : {"good", "none"}, parts : Partitions, boot : BOOLEAN, mbr : [Mbr!Slots -> MbrEntry]]
        /\ TablesAssumption(disk)
    BY DisksAssumption DEF Init
  <2>2. MbrOK(disk.mbr)
    BY <2>1, MbrFits DEF TablesAssumption
  <2> QED BY <2>1, <2>2 DEF DiskOK
<1>3. BackupOK
  <2>1. backup.holds \in {"none", "junk", "gpt"} /\ TablesAssumption(backup)
    BY DisksAssumption DEF Init
  <2>2. MbrOK(backup.mbr)
    BY <2>1, MbrFits DEF TablesAssumption
  <2> QED BY <2>1, <2>2 DEF BackupOK, TablesAssumption
<1>4. MemOK
  <2>1. mem = NoMem
    BY DEF Init
  <2> QED BY <2>1, NoMemType, BlankTable, ProtectiveMbr DEF MemOK, States
<1>5. WiperOK
  <2>1. wiper = <<>>
    BY DEF Init
  <2> QED BY <2>1 DEF WiperOK
<1>6. LeftOK
  <2>1. left = [runs |-> MaxRuns, options |-> MaxOptions, faults |-> Faults]
    BY DEF Init
  <2> QED BY <2>1, OptionsAssumption DEF LeftOK
<1>7. RetvalOK /\ zeroed = {}
  BY DEF Init, RetvalOK
<1> QED BY <1>1, <1>2, <1>3, <1>4, <1>5, <1>6, <1>7 DEF TypeInv

LEMMA TypeHolds == Spec => []TypeInv
<1>1. Init => TypeInv
  BY TypeInit
<1>2. TypeInv /\ [Next]_vars => TypeInv'
  BY TypeInductive
<1> QED BY <1>1, <1>2, PTL DEF Spec

\* Whatever the options, the tables in memory, the flags and the exit status stay
\* ones that DoOptions() knows, and nothing is wiped past the end of the disk.
THEOREM TypeCorrect == Spec => []TypeOK
<1>1. TypeInv => TypeOK
  <2> SUFFICES ASSUME TypeInv PROVE TypeOK
    OBVIOUS
  <2>1. /\ disk.gpt \in {"good", "none", "torn"} /\ disk.boot \in BOOLEAN
        /\ backup.holds \in {"none", "junk", "gpt"}
    BY DEF TypeInv, DiskOK, BackupOK
  <2>2. DOMAIN mem.parts = 1 .. NumParts /\ mem.state \in {"gpt", "hybrid", "mbr"}
    BY TableType DEF TypeInv, MemOK, States
  <2>3. flags \in [DOMAIN NoFlags -> BOOLEAN]
    <3>1. DOMAIN NoFlags = {"saveData", "neverSaveData", "saveNonGPT", "pretend", "wipe"}
      BY DEF NoFlags
    <3>2. flags \in Flags
      BY DEF TypeInv, AskedInv
    <3> QED BY <3>1, <3>2 DEF Flags
  <2> QED BY <2>1, <2>2, <2>3 DEF TypeInv, AskedInv, RetvalOK, TypeOK
<1> QED BY <1>1, TypeHolds, PTL

-----------------------------------------------------------------------------
(* What is wiped.                                                          *)

RangesWaiting == {wiper[i] : i \in 1 .. Len(wiper)}

\* The ranges that wait for the end of the run are the new partitions, as long as
\* none of these was moved to be aligned.
WaitingMatches ==
  /\ aux.created \subseteq UsedParts(mem.parts)
  /\ ~aux.moved => RangesWaiting = aux.created /\ \A p \in aux.created : p.first <= p.last

WipedInv ==
  /\ WaitingMatches
  /\ WipeMatchesTable
  /\ pc \in {"wipe", "options", "refused"} => zeroed = {}

LEMMA WaitingKept ==
  ASSUME WaitingMatches, UsedParts(mem.parts) \subseteq UsedParts(mem'.parts),
         wiper' = wiper, aux'.created = aux.created, aux'.moved = aux.moved
  PROVE  WaitingMatches'
BY DEF WaitingMatches, RangesWaiting

LEMMA WaitingNone ==
  ASSUME wiper' = <<>>, aux'.created = {}
  PROVE  WaitingMatches'
<1>1. {wiper'[i] : i \in 1 .. Len(wiper')} = {}
  OBVIOUS
<1> QED BY <1>1 DEF WaitingMatches, RangesWaiting

LEMMA CreateAdds ==
  ASSUME MemOK, NEW n, NEW start, NEW part, Creates(n, start, part)
  PROVE  UsedParts(mem'.parts) = UsedParts(mem.parts) \union {part} /\ mem'.mbr = mem.mbr
<1> DEFINE a == mem.parts
           b == [a EXCEPT ![n] = part]
<1>1. /\ n \in 1 .. NumParts /\ ~IsUsed(a[n]) /\ IsUsed(part) /\ part \in Partition
      /\ mem' = [mem EXCEPT !.parts[n] = part]
  BY DEF Creates
<1>2. DOMAIN a = 1 .. NumParts
  BY TableType DEF MemOK
<1>3. mem'.parts = b /\ mem'.mbr = mem.mbr
  BY <1>1, PartsExcept
<1>4. DOMAIN b = 1 .. NumParts /\ \A i \in 1 .. NumParts : b[i] = IF i = n THEN part ELSE a[i]
  BY <1>2
<1> HIDE DEF a, b
<1>5. ASSUME NEW p \in UsedParts(b) PROVE p \in UsedParts(a) \union {part}
  BY <1>2, <1>4, <1>5 DEF UsedParts
<1>6. ASSUME NEW p \in UsedParts(a) PROVE p \in UsedParts(b)
  <2>1. PICK i \in 1 .. NumParts : p = a[i] /\ IsUsed(a[i])
    BY <1>2, <1>6 DEF UsedParts
  <2>2. i # n /\ b[i] = a[i]
    BY <1>1, <1>4, <2>1
  <2> QED BY <1>4, <2>1, <2>2 DEF UsedParts
<1>7. part \in UsedParts(b)
  BY <1>1, <1>4 DEF UsedParts
<1> QED BY <1>3, <1>5, <1>6, <1>7 DEF a

LEMMA CreateWaits ==
  ASSUME TypeInv, WaitingMatches, NEW n, NEW start, NEW part, Creates(n, start, part)
  PROVE  WaitingMatches'
<1> DEFINE r == [first |-> start, last |-> part.last]
<1>1. /\ part \in Partition /\ part.first <= part.last /\ wiper' = Append(wiper, r)
      /\ aux' = [aux EXCEPT !.created = @ \union {part}, !.moved = @ \/ part.first # start]
  BY DEF Creates
<1>2. UsedParts(mem'.parts) = UsedParts(mem.parts) \union {part}
  BY CreateAdds DEF TypeInv
<1>4. DOMAIN aux = AuxFields
  BY DEF TypeInv, AskedInv
<1>5. aux'.created = aux.created \union {part} /\ (~aux'.moved => ~aux.moved /\ part.first = start)
  <2> DEFINE moved == aux.moved \/ part.first # start
             created == aux.created \union {part}
  <2>1. aux' = [aux EXCEPT !.created = created, !.moved = moved]
    BY <1>1
  <2> HIDE DEF moved, created
  <2>2. aux'.created = created /\ aux'.moved = moved
    BY <1>4, <2>1 DEF AuxFields
  <2> QED BY <2>2 DEF moved, created
<1>9. RangesWaiting' = RangesWaiting \union {r}
  <2> DEFINE w == wiper'
             N == Len(wiper)
  <2>1. wiper \in Seq(AnyPart) /\ N \in Nat
    BY DEF TypeInv, WiperOK
  <2>2. Len(w) = N + 1 /\ w[N + 1] = r /\ \A i \in 1 .. N : w[i] = wiper[i]
    BY <1>1, <2>1
  <2> HIDE DEF w, N
  <2>3. {w[i] : i \in 1 .. N + 1} = {wiper[i] : i \in 1 .. N} \union {r}
    <3>1. 1 .. N + 1 = (1 .. N) \union {N + 1}
      BY <2>1
    <3> QED BY <2>2, <3>1
  <2> QED BY <2>2, <2>3 DEF RangesWaiting, w, N
<1>10. ASSUME ~aux'.moved PROVE r = part
  <2>1. part.first = start
    BY <1>5, <1>10
  <2> QED BY <1>1, <2>1 DEF Partition
<1> HIDE DEF r
<1> QED BY <1>1, <1>2, <1>5, <1>9, <1>10 DEF WaitingMatches

LEMMA DeleteWaits ==
  ASSUME TypeInv, WaitingMatches, NEW n \in Numbers, MayDelete(n),
         mem' = DeletedIn(mem, n),
         wiper' = IF IsUsed(mem.parts[n]) THEN ForgetRange(mem.parts[n]) ELSE wiper,
         aux' = [aux EXCEPT !.created = @ \ {mem.parts[n]}]
  PROVE  WaitingMatches'
<1> DEFINE a == mem.parts
           p == a[n]
           b == [a EXCEPT ![n] = Unused]
<1>1. n \in Int
  BY OptionsAssumption DEF Numbers
<1>2. n \in 1 .. NumParts /\ mem'.parts = b
  BY <1>1, DeletedType DEF TypeInv
<1>3. DOMAIN a = 1 .. NumParts
  BY TableType DEF TypeInv, MemOK
<1>4. aux'.created = aux.created \ {p} /\ aux'.moved = aux.moved
  BY DEF TypeInv, AskedInv, AuxFields
<1>5. DOMAIN b = 1 .. NumParts /\ \A i \in 1 .. NumParts : b[i] = IF i = n THEN Unused ELSE a[i]
  BY <1>3
<1> HIDE DEF b
<1>6. ASSUME NEW q \in aux'.created PROVE q \in UsedParts(b)
  <2>1. q \in UsedParts(a) /\ q # p
    BY <1>4, <1>6 DEF WaitingMatches
  <2>2. PICK i \in 1 .. NumParts : q = a[i] /\ IsUsed(a[i])
    BY <1>3, <2>1 DEF UsedParts
  <2>3. i # n /\ b[i] = a[i]
    BY <1>5, <2>1, <2>2
  <2> QED BY <1>5, <2>2, <2>3 DEF UsedParts
<1>7. ASSUME ~aux'.moved PROVE RangesWaiting' = aux'.created
  <2>1. RangesWaiting = aux.created
    BY <1>4, <1>7 DEF WaitingMatches
  <2>2. CASE IsUsed(p)
    <3>1. wiper' = ForgetRange(p)
      BY <2>2
    <3>2. {wiper'[i] : i \in 1 .. Len(wiper')} = RangesWaiting \ {p}
      BY <3>1, ForgetIs DEF TypeInv, RangesWaiting
    <3> QED BY <1>4, <2>1, <3>2 DEF RangesWaiting
  <2>3. CASE ~IsUsed(p)
    <3>1. p \notin UsedParts(a)
      BY <2>3 DEF UsedParts
    <3>2. p \notin aux.created /\ wiper' = wiper
      BY <2>3, <3>1 DEF WaitingMatches
    <3> QED BY <1>4, <2>1, <3>2 DEF RangesWaiting
  <2> QED BY <2>2, <2>3
<1> QED BY <1>2, <1>4, <1>6, <1>7 DEF WaitingMatches

LEMMA FailsLeaves ==
  ASSUME TypeInv, Fails
  PROVE  aux'.created = aux.created /\ aux'.moved = aux.moved /\ mem' = mem /\ wiper' = wiper
BY DEF TypeInv, AskedInv, AuxFields, Fails

LEMMA OptionWaits ==
  ASSUME TypeInv, WaitingMatches, TakeOption
  PROVE  WaitingMatches'
<1> DEFINE Leaves == /\ aux'.created = aux.created /\ aux'.moved = aux.moved
                     /\ wiper' = wiper /\ UsedParts(mem'.parts) = UsedParts(mem.parts)
<1>1. Leaves => WaitingMatches'
  BY WaitingKept
<1>2. mem' = mem /\ aux' = aux /\ wiper' = wiper => WaitingMatches'
  BY <1>1
<1>3. Fails => WaitingMatches'
  BY <1>1, FailsLeaves
<1> HIDE DEF Leaves
<1>4. CASE OptNew \/ OptLargest
  <2>1. CASE \E n, start, part : Creates(n, start, part)
    BY <2>1, CreateWaits
  <2> QED BY <1>3, <1>4, <2>1, NewCreates DEF TypeInv
<1>5. CASE OptDelete
  <2>1. PICK n \in Numbers :
          IF MayDelete(n)
          THEN /\ mem' = DeletedIn(mem, n)
               /\ wiper' = IF IsUsed(mem.parts[n]) THEN ForgetRange(mem.parts[n]) ELSE wiper
               /\ aux' = [aux EXCEPT !.created = @ \ {mem.parts[n]}]
          ELSE Fails
    BY <1>5 DEF OptDelete
  <2> QED BY <1>3, <2>1, DeleteWaits
<1>6. CASE OptTranspose
  <2>1. PICK n \in Numbers, k \in Numbers :
          \/ /\ {n, k} \subseteq DOMAIN mem.parts /\ wiper' = wiper /\ aux' = aux
             /\ mem' = [mem EXCEPT !.parts[n] = mem.parts[k], !.parts[k] = mem.parts[n]]
          \/ Fails
    BY <1>6 DEF OptTranspose
  <2>2. CASE ~Fails
    <3>1. /\ {n, k} \subseteq DOMAIN mem.parts
          /\ mem' = [mem EXCEPT !.parts[n] = mem.parts[k], !.parts[k] = mem.parts[n]]
      BY <2>1, <2>2
    <3>2. MemOK
      BY DEF TypeInv
    <3>3. UsedParts(mem'.parts) = UsedParts(mem.parts)
      BY ONLY <3>1, <3>2, TransposedType
    <3> QED BY <1>1, <2>1, <2>2, <3>3 DEF Leaves
  <2> QED BY <1>3, <2>2
<1>7. CASE OptEdit \/ OptTouch \/ OptReplicate
  <2>1. Fails \/ (mem' = mem /\ aux' = aux /\ wiper' = wiper)
    BY <1>7 DEF OptEdit, OptTouch, OptReplicate
  <2> QED BY <1>2, <1>3, <2>1
<1>8. CASE OptAttributes \/ OptMbrToGpt
  <2>1. mem' = mem /\ wiper' = wiper
    BY <1>8 DEF OptAttributes, OptMbrToGpt
  <2>2. \E f, v : f \in {"failed", "asked"} /\ aux' = [aux EXCEPT ![f] = v]
    BY <1>8 DEF OptAttributes, OptMbrToGpt
  <2>3. aux'.created = aux.created /\ aux'.moved = aux.moved
    BY <2>2 DEF TypeInv, AskedInv, AuxFields
  <2> QED BY <1>1, <2>1, <2>3 DEF Leaves
<1>9. CASE OptAlignment \/ OptHybrid \/ OptGptToMbr \/ OptBackup
  <2>1. aux' = aux /\ wiper' = wiper
    BY <1>9 DEF OptAlignment, OptHybrid, OptGptToMbr, OptBackup
  <2>2. mem'.parts = mem.parts
    <3>1. CASE OptAlignment
      BY <3>1 DEF OptAlignment, TypeInv, MemOK
    <3>2. CASE OptHybrid \/ OptGptToMbr
      <4>1. mem' = mem \/ \E m : mem' = [mem EXCEPT !.mbr = m, !.state = "mbr"]
        BY <3>2 DEF OptHybrid, OptGptToMbr
      <4> QED BY <4>1 DEF TypeInv, MemOK
    <3>3. CASE OptBackup
      BY <3>3 DEF OptBackup
    <3> QED BY <1>9, <3>1, <3>2, <3>3
  <2> QED BY <1>1, <2>1, <2>2 DEF Leaves
<1>10. CASE OptClear \/ OptLoadBackup \/ OptZap
  <2>1. wiper' = <<>>
    BY <1>10 DEF OptClear, OptLoadBackup, OptZap
  <2>2. \/ aux' = [aux EXCEPT !.created = {}]
        \/ \E v : aux' = [aux EXCEPT !.created = {}, !.failed = v]
        \/ \E v : aux' = [aux EXCEPT !.asked = v, !.created = {}]
    BY <1>10 DEF OptClear, OptLoadBackup, OptZap
  <2>3. aux'.created = {}
    BY <2>2 DEF TypeInv, AskedInv, AuxFields
  <2> QED BY <2>1, <2>3, WaitingNone
<1> QED BY <1>4, <1>5, <1>6, <1>7, <1>8, <1>9, <1>10 DEF TakeOption

LEMMA WipedInductive ==
  ASSUME TypeInv, WipedInv, [Next]_vars
  PROVE  WipedInv'
<1>1. CASE Start \/ UnknownWipeMode \/ Exit
  <2>1. wiper' = <<>> /\ zeroed' = {} /\ pc' # "save"
    BY <1>1 DEF Start, Run, UnknownWipeMode, Exit
  <2> DEFINE mbr == WhichWasUsed = "mbr"
  <2>2. aux' = NoAux \/ \E v : aux' = [NoAux EXCEPT !.asked = v, !.nonGpt = mbr]
    BY <1>1 DEF Start, UnknownWipeMode, Exit
  <2> HIDE DEF mbr
  <2>3. aux'.created = {}
    <3>1. CASE aux' = NoAux
      BY <3>1 DEF NoAux
    <3>2. CASE \E v : aux' = [NoAux EXCEPT !.asked = v, !.nonGpt = mbr]
      <4>1. PICK v : aux' = [NoAux EXCEPT !.asked = v, !.nonGpt = mbr]
        BY <3>2
      <4>2. aux'.created = NoAux.created
        BY <4>1 DEF NoAux
      <4> QED BY <4>2 DEF NoAux
    <3> QED BY <2>2, <3>1, <3>2
  <2> QED BY <2>1, <2>3, WaitingNone DEF WipedInv, WipeMatchesTable
<1>2. CASE TakeOption
  <2>1. zeroed' = zeroed /\ pc' = pc /\ pc \in {"options", "refused"}
    BY <1>2 DEF TakeOption, OptNew, OptLargest, OptDelete, OptTranspose, OptEdit, OptTouch, OptAlignment,
                OptMbrToGpt, OptHybrid, OptGptToMbr, OptClear, OptBackup, OptLoadBackup, OptZap,
                OptReplicate, OptAttributes, Option, OptionWith, AnyOption
  <2>2. WaitingMatches'
    BY <1>2, OptionWaits DEF WipedInv
  <2> QED BY <2>1, <2>2 DEF WipedInv, WipeMatchesTable
<1>3. CASE EndOptions
  <2>1. /\ UNCHANGED <<mem, flags, wiper, zeroed, aux>> /\ pc \in {"options", "refused"}
        /\ pc' \in {"done", "wipe", "save"} /\ (flags.wipe => pc' # "save")
    BY <1>3 DEF EndOptions
  <2>2. WaitingMatches'
    BY <2>1, WaitingKept DEF WipedInv
  <2> QED BY <2>1, <2>2 DEF WipedInv, WipeMatchesTable
<1>4. CASE Wipe
  <2>1. UNCHANGED <<mem, flags, wiper, aux>> /\ pc' = "save"
    BY <1>4 DEF Wipe
  <2>2. WaitingMatches'
    BY <2>1, WaitingKept DEF WipedInv
  <2>3. /\ zeroed' \subseteq EndsOf(RangeSet)
        /\ left'.faults = Faults => zeroed' = EndsOf(RangeSet)
    BY <1>4, WipedIs DEF TypeInv
  <2>4. ASSUME ~aux.moved
        PROVE  RangeSet = aux.created /\ aux.created = aux.created \cap UsedParts(mem.parts)
    <3>1. \A i \in 1 .. Len(wiper) : wiper[i].first <= wiper[i].last
      BY <2>4 DEF WipedInv, WaitingMatches, RangesWaiting
    <3>2. Ranges = wiper
      BY <3>1, RangesAre DEF TypeInv
    <3> QED BY <2>4, <3>2 DEF WipedInv, WaitingMatches, RangesWaiting, RangeSet
  <2>5. WipeMatchesTable'
    <3> SUFFICES ASSUME ~aux'.moved
                 PROVE  LET ends == UNION {FrontOf(p) \union BackOf(p) : p \in aux'.created \cap UsedParts(mem'.parts)}
                        IN  zeroed' \subseteq ends /\ (left'.faults = Faults => zeroed' = ends)
      BY DEF WipeMatchesTable
    <3>1. RangeSet = aux'.created \cap UsedParts(mem'.parts)
      BY <2>1, <2>4
    <3> QED BY <2>3, <3>1 DEF EndsOf
  <2> QED BY <2>1, <2>2, <2>5 DEF WipedInv
<1>5. CASE Save \/ SaveFails
  <2>1. UNCHANGED <<mem, wiper, aux>> /\ pc' = "done"
    BY <1>5 DEF Save, SaveFails
  <2>2. WaitingMatches'
    BY <2>1, WaitingKept DEF WipedInv
  <2> QED BY <2>1, <2>2 DEF WipedInv, WipeMatchesTable
<1>6. CASE GdiskHybrid
  <2>1. UNCHANGED <<mem, wiper, aux, pc, zeroed>> /\ pc = "idle"
    BY <1>6 DEF GdiskHybrid
  <2>2. WaitingMatches'
    BY <2>1, WaitingKept DEF WipedInv
  <2> QED BY <2>1, <2>2 DEF WipedInv, WipeMatchesTable
<1>7. CASE UNCHANGED vars
  <2>1. UNCHANGED <<mem, wiper, aux, pc, zeroed, left, flags>>
    BY <1>7 DEF vars
  <2> QED BY <2>1 DEF WipedInv, WaitingMatches, RangesWaiting, WipeMatchesTable, FrontOf, BackOf
<1> QED BY <1>1, <1>2, <1>3, <1>4, <1>5, <1>6, <1>7 DEF Next

\* Under -W, when the save begins: the sectors that were zeroed are both ends of
\* the partitions that -n and -N made and no later option took back, and none
\* besides, for every order of options in a run.
THEOREM WipingIsExact == Spec => []WipeMatchesTable
<1>1. Init => WipedInv
  <2> SUFFICES ASSUME Init PROVE WipedInv
    OBVIOUS
  <2>1. pc = "idle" /\ wiper = <<>> /\ aux.created = {}
    BY DEF Init, NoAux
  <2>2. RangesWaiting = {}
    BY <2>1 DEF RangesWaiting
  <2> QED BY <2>1, <2>2 DEF WipedInv, WaitingMatches, WipeMatchesTable
<1>2. TypeInv /\ WipedInv /\ [Next]_vars => WipedInv'
  BY WipedInductive
<1>3. WipedInv => WipeMatchesTable
  BY DEF WipedInv
<1> QED BY <1>1, <1>2, <1>3, TypeHolds, PTL DEF Spec

-----------------------------------------------------------------------------
(* Hybrid MBRs follow the GPT.                                             *)

MatchesInv ==
  "o" \notin auxStale =>
    /\ disk.gpt = "good" /\ disk.boot => Matches(disk.mbr, disk.parts)
    /\ backup.holds = "gpt" => Matches(backup.mbr, backup.parts)
    /\ pc # "idle" => Matches(mem.mbr, mem.parts)

LEMMA NoDataMatches ==
  ASSUME NEW m, NoData(m), NEW parts
  PROVE  Matches(m, parts)
BY DEF NoData, Matches

LEMMA MatchesGrow ==
  ASSUME NEW m, NEW a, NEW b, UsedParts(a) \subseteq UsedParts(b), Matches(m, a)
  PROVE  Matches(m, b)
BY DEF Matches

\* -d takes the partition out of the hybrid MBR as well.
LEMMA DeletedMatches ==
  ASSUME MemOK, NEW n, MayDelete(n), n \in Int, Matches(mem.mbr, mem.parts), mem' = DeletedIn(mem, n)
  PROVE  Matches(mem'.mbr, mem'.parts)
<1> DEFINE a == mem.parts
           b == [a EXCEPT ![n] = Unused]
           m == mem'.mbr
<1>1. /\ n \in 1 .. NumParts /\ mem'.parts = b /\ Kept(mem.mbr, m)
      /\ \A i \in Mbr!Slots :
           m[i].type = "data" /\ a[n].first < Max32 /\ Mbr!LengthOf(a[n]) < Max32 =>
             ~(m[i].start = a[n].first /\ m[i].len = Mbr!LengthOf(a[n]))
  BY DeletedType
<1>2. DOMAIN a = 1 .. NumParts /\ a \in Partitions /\ 0 .. 3 \subseteq Mbr!Slots
  BY TableType, Widths DEF MemOK
<1>3. DOMAIN b = 1 .. NumParts /\ \A i \in 1 .. NumParts : b[i] = IF i = n THEN Unused ELSE a[i]
  BY <1>2
<1> HIDE DEF b, m
<1>4. ASSUME NEW i \in 0 .. 3, m[i].type = "data"
      PROVE  \E p \in UsedParts(b) : p.first <= p.last /\ Mbr!AsMBR(p) = m[i]
  <2>1. i \in Mbr!Slots /\ m[i] = mem.mbr[i]
    BY <1>1, <1>2, <1>4 DEF Kept
  <2>2. PICK p \in UsedParts(a) : p.first <= p.last /\ Mbr!AsMBR(p) = m[i]
    BY <1>4, <2>1 DEF Matches
  <2>3. PICK k \in 1 .. NumParts : p = a[k] /\ IsUsed(a[k])
    BY <1>2 DEF UsedParts
  <2>4. Fits(p)
    <3>1. a[k] \in Partition
      BY <1>2 DEF Partitions
    <3> QED BY <2>2, <2>3, <3>1 DEF Fits
  <2>5. /\ m[i].start = p.first /\ m[i].len = Mbr!LengthOf(p)
        /\ p.first < Max32 /\ Mbr!LengthOf(p) < Max32
    BY <2>2, <2>4, AsMBRIs
  <2>6. k # n
    BY <1>1, <1>4, <2>1, <2>3, <2>5
  <2>7. p \in UsedParts(b)
    <3>1. b[k] = p
      BY <1>3, <2>3, <2>6
    <3> QED BY <1>3, <2>3, <3>1 DEF UsedParts
  <2> QED BY <2>2, <2>7
<1>5. Matches(m, b)
  BY <1>4 DEF Matches
<1> QED BY <1>1, <1>5 DEF m

LEMMA BackupMatches ==
  ASSUME TypeInv, Matches(mem.mbr, mem.parts),
         backup.holds = "gpt" => Matches(backup.mbr, backup.parts), mem' = BackupMem
  PROVE  Matches(mem'.mbr, mem'.parts)
<1>1. CASE backup.holds = "gpt"
  <2> DEFINE x == BackupMBR
  <2>1. mem' = [mem EXCEPT !.parts = backup.parts, !.mbr = x.mbr, !.state = x.state]
    BY <1>1 DEF BackupMem
  <2>2. Kept(backup.mbr, x.mbr)
    BY <1>1, BackupType DEF TypeInv
  <2> HIDE DEF x
  <2>3. mem'.parts = backup.parts /\ mem'.mbr = x.mbr
    BY <2>1 DEF TypeInv, MemOK
  <2>4. Matches(x.mbr, backup.parts)
    BY <1>1, <2>2, MatchesKept
  <2> QED BY <2>3, <2>4
<1>2. CASE backup.holds = "junk"
  <2>1. mem' = [NoMem EXCEPT !.alignEnd = mem.alignEnd]
    BY <1>2 DEF BackupMem
  <2>2. mem'.mbr = Mbr!ProtectiveMBR
    BY <2>1, NoMemType DEF NoMem
  <2> QED BY <2>2, ProtectiveMbr, NoDataMatches
<1>3. CASE backup.holds \notin {"gpt", "junk"}
  <2>1. mem' = mem
    BY <1>3 DEF BackupMem
  <2> QED BY <2>1
<1> QED BY <1>1, <1>2, <1>3

LEMMA OptionMatches ==
  ASSUME TypeInv, MatchesInv, TakeOption, pc # "idle", "o" \notin auxStale'
  PROVE  Matches(mem'.mbr, mem'.parts) /\ "o" \notin auxStale
<1>1. "o" \notin auxStale
  BY StaleGrows
<1>2. Matches(mem.mbr, mem.parts)
  BY <1>1 DEF MatchesInv
<1>3. mem' = mem => Matches(mem'.mbr, mem'.parts)
  BY <1>2
<1>4. Fails => mem' = mem
  BY DEF Fails
<1>5. CASE OptNew \/ OptLargest
  <2>1. ASSUME NEW n, NEW start, NEW part, Creates(n, start, part) PROVE Matches(mem'.mbr, mem'.parts)
    <3>1. UsedParts(mem'.parts) = UsedParts(mem.parts) \union {part} /\ mem'.mbr = mem.mbr
      BY <2>1, CreateAdds DEF TypeInv
    <3> QED BY <1>2, <3>1, MatchesGrow
  <2> QED BY <1>1, <1>3, <1>4, <1>5, <2>1, NewCreates DEF TypeInv
<1>6. CASE OptDelete
  <2>1. PICK n \in Numbers : IF MayDelete(n) THEN mem' = DeletedIn(mem, n) ELSE Fails
    BY <1>6 DEF OptDelete
  <2>2. n \in Int
    BY OptionsAssumption DEF Numbers
  <2> QED BY <1>1, <1>2, <1>3, <1>4, <2>1, <2>2, DeletedMatches DEF TypeInv
<1>7. CASE OptTranspose
  <2>1. PICK n \in Numbers, k \in Numbers :
          \/ /\ {n, k} \subseteq DOMAIN mem.parts
             /\ mem' = [mem EXCEPT !.parts[n] = mem.parts[k], !.parts[k] = mem.parts[n]]
          \/ Fails
    BY <1>7 DEF OptTranspose
  <2>2. CASE ~Fails
    <3>1. /\ {n, k} \subseteq DOMAIN mem.parts
          /\ mem' = [mem EXCEPT !.parts[n] = mem.parts[k], !.parts[k] = mem.parts[n]]
      BY <2>1, <2>2
    <3>2. MemOK
      BY DEF TypeInv
    <3>3. UsedParts(mem'.parts) = UsedParts(mem.parts) /\ mem'.mbr = mem.mbr
      BY ONLY <3>1, <3>2, TransposedType
    <3> QED BY <1>1, <1>2, <3>3, MatchesGrow
  <2> QED BY <1>1, <1>3, <1>4, <2>2
<1>8. CASE OptEdit \/ OptTouch \/ OptReplicate \/ OptAttributes \/ OptMbrToGpt \/ OptBackup \/ OptZap
  <2>1. Fails \/ mem' = mem
    BY <1>8 DEF OptEdit, OptTouch, OptReplicate, OptAttributes, OptMbrToGpt, OptBackup, OptZap
  <2> QED BY <1>1, <1>3, <1>4, <2>1
<1>9. CASE OptAlignment
  <2>1. mem'.parts = mem.parts /\ mem'.mbr = mem.mbr
    BY <1>9 DEF OptAlignment, TypeInv, MemOK
  <2> QED BY <1>1, <1>2, <2>1
<1>10. CASE OptHybrid \/ OptGptToMbr
  <2>1. \/ mem' = mem
        \/ \E list \in Lists, hybrid, eeLast \in BOOLEAN :
             /\ Mbr!BuildMBR(mem.parts, list, hybrid, eeLast).ok
             /\ mem' = [mem EXCEPT !.mbr = Mbr!BuildMBR(mem.parts, list, hybrid, eeLast).mbr, !.state = "mbr"]
    BY <1>10 DEF OptHybrid, OptGptToMbr
  <2>2. ASSUME NEW list \in Lists, NEW hybrid \in BOOLEAN, NEW eeLast \in BOOLEAN,
               Mbr!BuildMBR(mem.parts, list, hybrid, eeLast).ok,
               mem' = [mem EXCEPT !.mbr = Mbr!BuildMBR(mem.parts, list, hybrid, eeLast).mbr, !.state = "mbr"]
        PROVE  Matches(mem'.mbr, mem'.parts)
    <3> DEFINE m == Mbr!BuildMBR(mem.parts, list, hybrid, eeLast).mbr
    <3>1. MbrOK(m) /\ Matches(m, mem.parts)
      BY <2>2, BuiltMbr, OptionsAssumption DEF TypeInv, MemOK
    <3> HIDE DEF m
    <3>2. mem' = [mem EXCEPT !.mbr = m, !.state = "mbr"]
      BY <2>2 DEF m
    <3>3. mem'.parts = mem.parts /\ mem'.mbr = m
      BY <3>1, <3>2, NewMbrType DEF TypeInv
    <3> QED BY <3>1, <3>3
  <2> QED BY <1>1, <1>3, <2>1, <2>2
<1>11. CASE OptClear
  <2>1. mem.state = "gpt" /\ mem' = [mem EXCEPT !.parts = Blank, !.align = DefaultAlignment]
    BY <1>11 DEF OptClear
  <2>2. NoData(mem.mbr) /\ mem'.mbr = mem.mbr
    BY <2>1 DEF TypeInv, MemOK
  <2> QED BY <1>1, <2>2, NoDataMatches
<1>12. CASE OptLoadBackup
  <2>1. mem' = BackupMem
    BY <1>12 DEF OptLoadBackup
  <2> QED BY <1>1, <1>2, <2>1, BackupMatches DEF MatchesInv
<1> QED BY <1>5, <1>6, <1>7, <1>8, <1>9, <1>10, <1>11, <1>12 DEF TakeOption

LEMMA MatchesInductive ==
  ASSUME TypeInv, MatchesInv, [Next]_vars
  PROVE  MatchesInv'
<1>1. CASE Start
  <2>1. mem' = LoadedMem /\ UNCHANGED <<disk, backup, auxStale>>
    BY <1>1 DEF Start
  <2>2. \/ mem'.parts = disk.parts /\ mem'.mbr = disk.mbr /\ disk.gpt = "good" /\ disk.boot
        \/ mem'.mbr = Mbr!ProtectiveMBR
    BY <2>1, LoadsOneOf DEF TypeInv
  <2>3. "o" \notin auxStale => Matches(mem'.mbr, mem'.parts)
    BY <2>2, ProtectiveMbr, NoDataMatches DEF MatchesInv
  <2> QED BY <2>1, <2>3 DEF MatchesInv
<1>2. CASE UnknownWipeMode \/ Exit
  <2>1. mem' = NoMem /\ UNCHANGED <<disk, backup, auxStale>>
    BY <1>2 DEF UnknownWipeMode, Exit
  <2>2. Matches(mem'.mbr, mem'.parts)
    BY <2>1, NoMemType, ProtectiveMbr, NoDataMatches
  <2> QED BY <2>1, <2>2 DEF MatchesInv
<1>3. CASE TakeOption
  <2> SUFFICES ASSUME "o" \notin auxStale'
               PROVE  /\ disk'.gpt = "good" /\ disk'.boot => Matches(disk'.mbr, disk'.parts)
                      /\ backup'.holds = "gpt" => Matches(backup'.mbr, backup'.parts)
                      /\ Matches(mem'.mbr, mem'.parts)
    BY DEF MatchesInv
  <2>1. pc \in {"options", "refused"} /\ pc # "idle"
    BY <1>3 DEF TakeOption, OptNew, OptLargest, OptDelete, OptTranspose, OptEdit, OptTouch, OptAlignment,
                OptMbrToGpt, OptHybrid, OptGptToMbr, OptClear, OptBackup, OptLoadBackup, OptZap,
                OptReplicate, OptAttributes, Option, OptionWith, AnyOption
  <2>2. Matches(mem'.mbr, mem'.parts) /\ "o" \notin auxStale
    BY <1>3, <2>1, OptionMatches
  <2>3. /\ disk.gpt = "good" /\ disk.boot => Matches(disk.mbr, disk.parts)
        /\ backup.holds = "gpt" => Matches(backup.mbr, backup.parts)
        /\ Matches(mem.mbr, mem.parts)
    BY <2>1, <2>2 DEF MatchesInv
  <2>4. disk' = disk \/ disk'.gpt = "none"
    <3>1. CASE OptGptToMbr
      BY <3>1 DEF OptGptToMbr
    <3>2. CASE OptZap
      BY <3>2 DEF OptZap, TypeInv, DiskOK
    <3>3. CASE OptNew \/ OptLargest
      BY <3>3, NewCreates DEF TypeInv, Creates, Fails
    <3>4. CASE OptDelete \/ OptTranspose \/ OptEdit \/ OptTouch \/ OptAlignment \/ OptMbrToGpt \/ OptHybrid
               \/ OptClear \/ OptBackup \/ OptLoadBackup \/ OptReplicate \/ OptAttributes
      BY <3>4 DEF OptDelete, OptTranspose, OptEdit, OptTouch, OptAlignment, OptMbrToGpt, OptHybrid,
                  OptClear, OptBackup, OptLoadBackup, OptReplicate, OptAttributes, Fails
    <3> QED BY <1>3, <3>1, <3>2, <3>3, <3>4 DEF TakeOption
  <2>5. backup' = backup \/ (backup'.parts = mem.parts /\ backup'.mbr = mem.mbr)
    <3>1. CASE OptBackup
      BY <3>1 DEF OptBackup
    <3>2. CASE OptNew \/ OptLargest
      BY <3>2, NewCreates DEF TypeInv, Creates, Fails
    <3>3. CASE OptDelete \/ OptTranspose \/ OptEdit \/ OptTouch \/ OptAlignment \/ OptMbrToGpt \/ OptHybrid
               \/ OptGptToMbr \/ OptZap \/ OptClear \/ OptLoadBackup \/ OptReplicate \/ OptAttributes
      BY <3>3 DEF OptDelete, OptTranspose, OptEdit, OptTouch, OptAlignment, OptMbrToGpt, OptHybrid,
                  OptGptToMbr, OptZap, OptClear, OptLoadBackup, OptReplicate, OptAttributes, Fails
    <3> QED BY <1>3, <3>1, <3>2, <3>3 DEF TakeOption
  <2> QED BY <2>2, <2>3, <2>4, <2>5
<1>4. CASE EndOptions \/ Wipe
  <2>1. UNCHANGED <<disk, backup, mem, auxStale>> /\ pc # "idle"
    BY <1>4 DEF EndOptions, Wipe
  <2> QED BY <2>1 DEF MatchesInv
<1>5. CASE Save
  <2>1. UNCHANGED <<backup, mem, auxStale>> /\ pc # "idle"
        /\ disk' = [gpt |-> "good", parts |-> mem.parts, boot |-> TRUE, mbr |-> mem.mbr]
    BY <1>5 DEF Save
  <2>2. disk'.parts = mem.parts /\ disk'.mbr = mem.mbr
    BY <2>1
  <2> QED BY <2>1, <2>2 DEF MatchesInv
<1>6. CASE SaveFails
  <2>1. UNCHANGED <<backup, mem, auxStale>> /\ pc # "idle"
        /\ (disk' = disk \/ disk' = [disk EXCEPT !.gpt = "torn"])
    BY <1>6 DEF SaveFails
  <2>2. disk' = disk \/ disk'.gpt = "torn"
    BY <2>1 DEF TypeInv, DiskOK
  <2> QED BY <2>1, <2>2 DEF MatchesInv
<1>7. CASE GdiskHybrid
  <2>1. UNCHANGED <<backup, mem, auxStale, pc>> /\ disk.gpt = "good"
    BY <1>7 DEF GdiskHybrid
  <2>2. (disk.boot => Matches(disk.mbr, disk.parts)) => Matches(disk'.mbr, disk'.parts)
    BY <1>7, HybridOnDisk DEF TypeInv
  <2> QED BY <2>1, <2>2 DEF MatchesInv
<1>8. CASE UNCHANGED vars
  BY <1>8 DEF vars, MatchesInv
<1> QED BY <1>1, <1>2, <1>3, <1>4, <1>5, <1>6, <1>7, <1>8 DEF Next

LEMMA MatchesHolds == Spec => []MatchesInv
<1>1. Init => MatchesInv
  <2> SUFFICES ASSUME Init, "o" \notin auxStale PROVE MatchesInv
    BY DEF MatchesInv
  <2>1. pc = "idle" /\ disk \in Disks /\ backup \in BackupFiles
        /\ ~(disk.gpt = "good" /\ MbrState = "mbr")
    BY DEF Init
  <2>2. backup.holds = "gpt" => Matches(backup.mbr, backup.parts)
    BY <2>1, DisksAssumption
  <2>3. ASSUME disk.gpt = "good", disk.boot PROVE Matches(disk.mbr, disk.parts)
    <3>1. Mbr!StateOf(disk.mbr) # "mbr"
      BY <2>1, <2>3 DEF MbrState
    <3> QED BY <2>1, <2>3, <3>1, DisksAssumption
  <2> QED BY <2>1, <2>2, <2>3 DEF MatchesInv
<1>2. TypeInv /\ MatchesInv /\ [Next]_vars => MatchesInv'
  BY MatchesInductive
<1> QED BY <1>1, <1>2, TypeHolds, PTL DEF Spec

\* Unless -o left MBR entries behind: what a run of sgdisk, or gdisk's hybrid MBR,
\* leaves in the MBR besides EE is partitions of the GPT on the same disk, also
\* after partitions were deleted, moved to other numbers or read from a backup.
THEOREM HybridsMatch == Spec => []HybridMatchesGpt
<1>1. MatchesInv => HybridMatchesGpt
  BY DEF MatchesInv, HybridMatchesGpt
<1> QED BY <1>1, MatchesHolds, PTL

-----------------------------------------------------------------------------
(* The entries of type EE keep off the partitions: first what the searches in *)
(* the first four entries of an MBR find.                                     *)

LEMMA FirstOfSlots ==
  LET seq == SubSeq(Mbr!Upward, 1, 4)
  IN  DOMAIN seq = 1..4 /\ \A k \in 1..4 : seq[k] = k - 1 /\ seq[k] \in 0 .. 3
<1> DEFINE seq == SubSeq(Mbr!Upward, 1, 4)
<1>1. MaxParts \in Nat /\ MaxParts > 4
  BY Widths
<1>2. Mbr!Upward = [k \in 1..MaxParts |-> k - 1]
  BY DEF Mbr!Upward
<1>3. seq = [k \in 1..4 |-> k - 1]
  BY <1>1, <1>2
<1> HIDE DEF seq
<1>4. DOMAIN seq = 1..4 /\ \A k \in 1..4 : seq[k] = k - 1 /\ seq[k] \in 0 .. 3
  BY <1>3
<1> QED BY <1>4 DEF seq

-----------------------------------------------------------------------------
(* EE entries keep off the partitions.                                      *)

\* Where an entry of an MBR lies on the disk.
PastEnd(e) == e.start + e.len
Off(e, f) == PastEnd(e) <= f.start \/ PastEnd(f) <= e.start
Inside(e) == e.start > 1 /\ e.len > 1 /\ PastEnd(e) <= DiskSize

\* What is asked of the first four entries: others than EE are primary partitions or
\* empty, and EE entries keep off the partitions that lie on the disk.
EntryShape(e) ==
  /\ e.start \in Nat /\ e.len \in Nat
  /\ CASE e.type = "data" -> e.as = "PRIMARY" /\ e.len > 0
       [] e.type = "ee" -> e.len > 0 /\ e.start < DiskSize
       [] OTHER -> e.start = 0 /\ e.len = 0
Shape(m) ==
  /\ \A i \in 0 .. 3 : EntryShape(m[i])
  /\ \A i, k \in 0 .. 3 :
       /\ m[i].type = "data" /\ m[k].type = "data" /\ m[i] # m[k] => Off(m[i], m[k])
       /\ m[i].type = "ee" /\ m[k].type = "data" /\ Inside(m[k]) => Off(m[i], m[k])

\* The searches in the first four entries, entry by entry.
Numbered(m) == \A i \in 0 .. 3 : m[i].start \in Nat /\ m[i].len \in Nat

LookResults(m) == {"NONE", "EBR", "INVALID"} \union {m[i].as : i \in 0 .. 3}
Look4(m, sector, was, i) ==
  IF was \notin {"NONE", "EBR"} THEN was
  ELSE IF sector >= DiskSize THEN "INVALID"
  ELSE IF sector = 0 \/ (m[i].start = sector + 1 /\ m[i].as = "LOGICAL") THEN "EBR"
  ELSE IF Mbr!Covers(m[i], sector) THEN m[i].as
  ELSE was
Look4Step(m, sector) == [x \in (1..4) \X LookResults(m) |-> Look4(m, sector, x[2], x[1] - 1)]

LEMMA Look4Steps ==
  ASSUME NEW m, NEW sector
  PROVE  \E h : Steps(h, 4, "NONE", LookResults(m), Look4Step(m, sector)) /\ Mbr!SectorUsedAs(m, sector, 4) = h[4]
<1> DEFINE N == 4
           seq == SubSeq(Mbr!Upward, 1, 4)
           g == Look4Step(m, sector)
           op(x, i) == Look4(m, sector, x, i)
           b == "NONE"
           V == LookResults(m)
           Is(f) == f = [I \in SUBSET (DOMAIN seq) |->
                           IF I = {} THEN b ELSE op(f[I \ {Max(I)}], seq[Max(I)])]
           F == CHOOSE f : Is(f)
<1>0. N \in Nat /\ DOMAIN seq = 1..N /\ \A k \in 1..N : seq[k] = k - 1 /\ seq[k] \in 0 .. 3
  BY FirstOfSlots
<1>1. Mbr!SectorUsedAs(m, sector, 4) = F[1..N]
  <2>1. Mbr!SectorUsedAs(m, sector, 4) = F[DOMAIN seq]
    BY DEF Mbr!SectorUsedAs, Look4, Mbr!FoldLeft, Mbr!MapThenFoldSet, Mbr!Max, Max
  <2> HIDE DEF F, seq
  <2> QED BY <1>0, <2>1
<1> HIDE DEF seq
<1>2. g \in [(1..N) \X V -> V]
  <2>1. ASSUME NEW x \in (1..N) \X V PROVE op(x[2], x[1] - 1) \in V
    <3>1. x[1] - 1 \in 0 .. 3 /\ x[2] \in V
      OBVIOUS
    <3> HIDE DEF V
    <3> QED BY <3>1 DEF Look4, LookResults, V
  <2> QED BY <2>1 DEF Look4Step
<1>3. ASSUME NEW I \in SUBSET (1..N), I # {}, NEW y \in V
      PROVE  g[<<Max(I), y>>] = op(y, seq[Max(I)])
  <2>1. Max(I) \in 1..N
    BY <1>0, <1>3, MaxIn
  <2>2. seq[Max(I)] = Max(I) - 1
    BY <1>0, <2>1
  <2>3. g[<<Max(I), y>>] = op(y, Max(I) - 1)
    BY <2>1 DEF Look4Step
  <2> QED BY <2>2, <2>3
<1>4. b \in V
  BY DEF LookResults
<1> HIDE DEF V, b
<1>5. PICK f \in [SUBSET (1..N) -> V] : FoldsBy(f, N, b, g)
  <2> HIDE DEF g, N
  <2> QED BY <1>0, <1>2, <1>4, FoldExists
<1>6. Is(f)
  <2>1. ASSUME NEW I \in SUBSET (1..N), I # {}
        PROVE  g[<<Max(I), f[I \ {Max(I)}]>>] = op(f[I \ {Max(I)}], seq[Max(I)])
    <3>1. f[I \ {Max(I)}] \in V
      BY <1>5
    <3> HIDE DEF g, op
    <3> QED BY <1>3, <2>1, <3>1
  <2> HIDE DEF g, op, N
  <2> QED BY <1>0, <1>5, <2>1 DEF FoldsBy
<1>7. Is(F)
  <2> HIDE DEF Is
  <2> QED BY <1>6
<1>8. Follows(F, N, b, V, g)
  <2>1. F[{}] = b
    <3> HIDE DEF F, op, N
    <3> QED BY <1>0, <1>7
  <2>2. ASSUME NEW I \in SUBSET (1..N), I # {}, F[I \ {Max(I)}] \in V
        PROVE  F[I] = g[<<Max(I), F[I \ {Max(I)}]>>]
    <3> HIDE DEF F, op, N, g
    <3> QED BY <1>0, <1>3, <1>7, <2>2
  <2> HIDE DEF F, op, N, g
  <2> QED BY <1>0, <1>2, <1>4, <2>1, <2>2 DEF Follows
<1>9. PICK h : Steps(h, N, b, V, g) /\ h[N] = F[1..N]
  <2> HIDE DEF F, g, N
  <2> QED BY <1>8, FoldSteps
<1> HIDE DEF F, g
<1> QED BY <1>1, <1>9 DEF g, V, b

Last4(m, start, x, i) == IF x > m[i].start /\ m[i].start > start THEN m[i].start - 1 ELSE x
Last4Step(m, start) == [x \in (1..4) \X Int |-> Last4(m, start, x[2], x[1] - 1)]

LEMMA Last4Steps ==
  ASSUME NEW m, Numbered(m), NEW start
  PROVE  \E h : Steps(h, 4, DiskSize - 1, Int, Last4Step(m, start)) /\ Mbr!FindLastInFree(m, start) = h[4]
<1> DEFINE N == 4
           seq == Mbr!FirstFour
           g == Last4Step(m, start)
           op(x, i) == Last4(m, start, x, i)
           b == DiskSize - 1
           V == Int
           Is(f) == f = [I \in SUBSET (DOMAIN seq) |->
                           IF I = {} THEN b ELSE op(f[I \ {Max(I)}], seq[Max(I)])]
           F == CHOOSE f : Is(f)
<1>0. N \in Nat /\ DOMAIN seq = 1..N /\ \A k \in 1..N : seq[k] = k - 1 /\ seq[k] \in 0 .. 3
  BY DEF Mbr!FirstFour
<1>1. Mbr!FindLastInFree(m, start) = F[1..N]
  <2>1. Mbr!FindLastInFree(m, start) = F[DOMAIN seq]
    BY DEF Mbr!FindLastInFree, Last4, Mbr!FoldLeft, Mbr!MapThenFoldSet, Mbr!Max, Max
  <2> HIDE DEF F, seq
  <2> QED BY <1>0, <2>1
<1> HIDE DEF seq
<1>2. g \in [(1..N) \X V -> V]
  <2>1. ASSUME NEW x \in (1..N) \X V PROVE op(x[2], x[1] - 1) \in V
    <3>1. x[1] - 1 \in 0 .. 3 /\ x[2] \in V
      OBVIOUS
    <3> HIDE DEF V
    <3> QED BY <3>1 DEF Last4, Numbered, V
  <2> QED BY <2>1 DEF Last4Step
<1>3. ASSUME NEW I \in SUBSET (1..N), I # {}, NEW y \in V
      PROVE  g[<<Max(I), y>>] = op(y, seq[Max(I)])
  <2>1. Max(I) \in 1..N
    BY <1>0, <1>3, MaxIn
  <2>2. seq[Max(I)] = Max(I) - 1
    BY <1>0, <2>1
  <2>3. g[<<Max(I), y>>] = op(y, Max(I) - 1)
    BY <2>1 DEF Last4Step
  <2> QED BY <2>2, <2>3
<1>4. b \in V
  BY Widths
<1> HIDE DEF V, b
<1>5. PICK f \in [SUBSET (1..N) -> V] : FoldsBy(f, N, b, g)
  <2> HIDE DEF g, N
  <2> QED BY <1>0, <1>2, <1>4, FoldExists
<1>6. Is(f)
  <2>1. ASSUME NEW I \in SUBSET (1..N), I # {}
        PROVE  g[<<Max(I), f[I \ {Max(I)}]>>] = op(f[I \ {Max(I)}], seq[Max(I)])
    <3>1. f[I \ {Max(I)}] \in V
      BY <1>5
    <3> HIDE DEF g, op
    <3> QED BY <1>3, <2>1, <3>1
  <2> HIDE DEF g, op, N
  <2> QED BY <1>0, <1>5, <2>1 DEF FoldsBy
<1>7. Is(F)
  <2> HIDE DEF Is
  <2> QED BY <1>6
<1>8. Follows(F, N, b, V, g)
  <2>1. F[{}] = b
    <3> HIDE DEF F, op, N
    <3> QED BY <1>0, <1>7
  <2>2. ASSUME NEW I \in SUBSET (1..N), I # {}, F[I \ {Max(I)}] \in V
        PROVE  F[I] = g[<<Max(I), F[I \ {Max(I)}]>>]
    <3> HIDE DEF F, op, N, g
    <3> QED BY <1>0, <1>3, <1>7, <2>2
  <2> HIDE DEF F, op, N, g
  <2> QED BY <1>0, <1>2, <1>4, <2>1, <2>2 DEF Follows
<1>9. PICK h : Steps(h, N, b, V, g) /\ h[N] = F[1..N]
  <2> HIDE DEF F, g, N
  <2> QED BY <1>8, FoldSteps
<1> HIDE DEF F, g
<1> QED BY <1>1, <1>9 DEF g, V, b

First4(m, start, x, i) ==
  IF Mbr!LastLBA(m[i]) > x /\ Mbr!LastLBA(m[i]) < start THEN Mbr!LastLBA(m[i]) + 1 ELSE x
First4Step(m, start) == [x \in (1..4) \X Nat |-> First4(m, start, x[2], x[1] - 1)]

LEMMA First4Steps ==
  ASSUME NEW m, Numbered(m), NEW start
  PROVE  \E h : Steps(h, 4, 1, Nat, First4Step(m, start)) /\ Mbr!FindFirstInFree(m, start) = h[4]
<1> DEFINE N == 4
           seq == Mbr!FirstFour
           g == First4Step(m, start)
           op(x, i) == First4(m, start, x, i)
           b == 1
           V == Nat
           Is(f) == f = [I \in SUBSET (DOMAIN seq) |->
                           IF I = {} THEN b ELSE op(f[I \ {Max(I)}], seq[Max(I)])]
           F == CHOOSE f : Is(f)
<1>0. N \in Nat /\ DOMAIN seq = 1..N /\ \A k \in 1..N : seq[k] = k - 1 /\ seq[k] \in 0 .. 3
  BY DEF Mbr!FirstFour
<1>1. Mbr!FindFirstInFree(m, start) = F[1..N]
  <2>1. Mbr!FindFirstInFree(m, start) = F[DOMAIN seq]
    BY DEF Mbr!FindFirstInFree, First4, Mbr!FoldLeft, Mbr!MapThenFoldSet, Mbr!Max, Max
  <2> HIDE DEF F, seq
  <2> QED BY <1>0, <2>1
<1> HIDE DEF seq
<1>2. g \in [(1..N) \X V -> V]
  <2>1. ASSUME NEW x \in (1..N) \X V PROVE op(x[2], x[1] - 1) \in V
    <3>1. x[1] - 1 \in 0 .. 3 /\ x[2] \in V
      OBVIOUS
    <3> HIDE DEF V
    <3> QED BY <3>1 DEF First4, Numbered, Mbr!LastLBA, V
  <2> QED BY <2>1 DEF First4Step
<1>3. ASSUME NEW I \in SUBSET (1..N), I # {}, NEW y \in V
      PROVE  g[<<Max(I), y>>] = op(y, seq[Max(I)])
  <2>1. Max(I) \in 1..N
    BY <1>0, <1>3, MaxIn
  <2>2. seq[Max(I)] = Max(I) - 1
    BY <1>0, <2>1
  <2>3. g[<<Max(I), y>>] = op(y, Max(I) - 1)
    BY <2>1 DEF First4Step
  <2> QED BY <2>2, <2>3
<1>4. b \in V
  BY DEF V
<1> HIDE DEF V, b
<1>5. PICK f \in [SUBSET (1..N) -> V] : FoldsBy(f, N, b, g)
  <2> HIDE DEF g, N
  <2> QED BY <1>0, <1>2, <1>4, FoldExists
<1>6. Is(f)
  <2>1. ASSUME NEW I \in SUBSET (1..N), I # {}
        PROVE  g[<<Max(I), f[I \ {Max(I)}]>>] = op(f[I \ {Max(I)}], seq[Max(I)])
    <3>1. f[I \ {Max(I)}] \in V
      BY <1>5
    <3> HIDE DEF g, op
    <3> QED BY <1>3, <2>1, <3>1
  <2> HIDE DEF g, op, N
  <2> QED BY <1>0, <1>5, <2>1 DEF FoldsBy
<1>7. Is(F)
  <2> HIDE DEF Is
  <2> QED BY <1>6
<1>8. Follows(F, N, b, V, g)
  <2>1. F[{}] = b
    <3> HIDE DEF F, op, N
    <3> QED BY <1>0, <1>7
  <2>2. ASSUME NEW I \in SUBSET (1..N), I # {}, F[I \ {Max(I)}] \in V
        PROVE  F[I] = g[<<Max(I), F[I \ {Max(I)}]>>]
    <3> HIDE DEF F, op, N, g
    <3> QED BY <1>0, <1>3, <1>7, <2>2
  <2> HIDE DEF F, op, N, g
  <2> QED BY <1>0, <1>2, <1>4, <2>1, <2>2 DEF Follows
<1>9. PICK h : Steps(h, N, b, V, g) /\ h[N] = F[1..N]
  <2> HIDE DEF F, g, N
  <2> QED BY <1>8, FoldSteps
<1> HIDE DEF F, g
<1> QED BY <1>1, <1>9 DEF g, V, b

Pass4(m, x, i) == IF m[i].start <= x /\ x < m[i].start + m[i].len THEN m[i].start + m[i].len ELSE x
Pass4Step(m) == [x \in (1..4) \X Nat |-> Pass4(m, x[2], x[1] - 1)]
PassOnce(m, y) == Mbr!FoldLeft(LAMBDA x, i : Pass4(m, x, i), y, Mbr!FirstFour)

LEMMA Pass4Steps ==
  ASSUME NEW m, Numbered(m), NEW from \in Nat
  PROVE  \E h : Steps(h, 4, from, Nat, Pass4Step(m)) /\ PassOnce(m, from) = h[4]
<1> DEFINE N == 4
           seq == Mbr!FirstFour
           g == Pass4Step(m)
           op(x, i) == Pass4(m, x, i)
           b == from
           V == Nat
           Is(f) == f = [I \in SUBSET (DOMAIN seq) |->
                           IF I = {} THEN b ELSE op(f[I \ {Max(I)}], seq[Max(I)])]
           F == CHOOSE f : Is(f)
<1>0. N \in Nat /\ DOMAIN seq = 1..N /\ \A k \in 1..N : seq[k] = k - 1 /\ seq[k] \in 0 .. 3
  BY DEF Mbr!FirstFour
<1>1. PassOnce(m, from) = F[1..N]
  <2>1. PassOnce(m, from) = F[DOMAIN seq]
    BY DEF PassOnce, Mbr!FoldLeft, Mbr!MapThenFoldSet, Mbr!Max, Max
  <2> HIDE DEF F, seq
  <2> QED BY <1>0, <2>1
<1> HIDE DEF seq
<1>2. g \in [(1..N) \X V -> V]
  <2>1. ASSUME NEW x \in (1..N) \X V PROVE op(x[2], x[1] - 1) \in V
    <3>1. x[1] - 1 \in 0 .. 3 /\ x[2] \in V
      OBVIOUS
    <3> HIDE DEF V
    <3> QED BY <3>1 DEF Pass4, Numbered, V
  <2> QED BY <2>1 DEF Pass4Step
<1>3. ASSUME NEW I \in SUBSET (1..N), I # {}, NEW y \in V
      PROVE  g[<<Max(I), y>>] = op(y, seq[Max(I)])
  <2>1. Max(I) \in 1..N
    BY <1>0, <1>3, MaxIn
  <2>2. seq[Max(I)] = Max(I) - 1
    BY <1>0, <2>1
  <2>3. g[<<Max(I), y>>] = op(y, Max(I) - 1)
    BY <2>1 DEF Pass4Step
  <2> QED BY <2>2, <2>3
<1>4. b \in V
  BY DEF V
<1> HIDE DEF V, b
<1>5. PICK f \in [SUBSET (1..N) -> V] : FoldsBy(f, N, b, g)
  <2> HIDE DEF g, N
  <2> QED BY <1>0, <1>2, <1>4, FoldExists
<1>6. Is(f)
  <2>1. ASSUME NEW I \in SUBSET (1..N), I # {}
        PROVE  g[<<Max(I), f[I \ {Max(I)}]>>] = op(f[I \ {Max(I)}], seq[Max(I)])
    <3>1. f[I \ {Max(I)}] \in V
      BY <1>5
    <3> HIDE DEF g, op
    <3> QED BY <1>3, <2>1, <3>1
  <2> HIDE DEF g, op, N
  <2> QED BY <1>0, <1>5, <2>1 DEF FoldsBy
<1>7. Is(F)
  <2> HIDE DEF Is
  <2> QED BY <1>6
<1>8. Follows(F, N, b, V, g)
  <2>1. F[{}] = b
    <3> HIDE DEF F, op, N
    <3> QED BY <1>0, <1>7
  <2>2. ASSUME NEW I \in SUBSET (1..N), I # {}, F[I \ {Max(I)}] \in V
        PROVE  F[I] = g[<<Max(I), F[I \ {Max(I)}]>>]
    <3> HIDE DEF F, op, N, g
    <3> QED BY <1>0, <1>3, <1>7, <2>2
  <2> HIDE DEF F, op, N, g
  <2> QED BY <1>0, <1>2, <1>4, <2>1, <2>2 DEF Follows
<1>9. PICK h : Steps(h, N, b, V, g) /\ h[N] = F[1..N]
  <2> HIDE DEF F, g, N
  <2> QED BY <1>8, FoldSteps
<1> HIDE DEF F, g
<1> QED BY <1>1, <1>9 DEF g, V, b

LEMMA ShapeNumbers == ASSUME NEW m, Shape(m) PROVE Numbered(m)
BY DEF Shape, EntryShape, Numbered

\* A sector that is not in use is on the disk, and no partition holds it.
LEMMA UnusedSector ==
  ASSUME NEW m, Shape(m), NEW sector \in Nat, Mbr!SectorUsedAs(m, sector, 4) = "NONE"
  PROVE  /\ sector < DiskSize /\ sector > 0
         /\ \A i \in 0 .. 3 : m[i].type = "data" => PastEnd(m[i]) <= sector \/ sector < m[i].start
<1>1. PICK h : Steps(h, 4, "NONE", LookResults(m), Look4Step(m, sector))
               /\ Mbr!SectorUsedAs(m, sector, 4) = h[4]
  BY Look4Steps
<1>2. h[0] = "NONE" /\ h[4] = "NONE"
  BY <1>1 DEF Steps
<1>3. ASSUME NEW i \in 0 .. 3 PROVE h[i + 1] = Look4(m, sector, h[i], i)
  <2>1. i + 1 \in 1..4 /\ i \in 0..4 /\ (i + 1) - 1 = i
    OBVIOUS
  <2>2. h[i] \in LookResults(m) /\ h[i + 1] = Look4Step(m, sector)[<<i + 1, h[i]>>]
    BY <1>1, <2>1 DEF Steps
  <2> QED BY <2>1, <2>2 DEF Look4Step
<1>4. /\ h[1] = Look4(m, sector, h[0], 0) /\ h[2] = Look4(m, sector, h[1], 1)
      /\ h[3] = Look4(m, sector, h[2], 2) /\ h[4] = Look4(m, sector, h[3], 3)
  BY <1>3
<1>5. DiskSize \in Nat /\ DiskSize > 0
  BY Widths
<1>6. sector < DiskSize
  BY <1>2, <1>4, <1>5 DEF Look4
<1>7. sector > 0
  BY <1>2, <1>4, <1>5, <1>6 DEF Look4
<1>8. ASSUME NEW i \in 0 .. 3 PROVE h[i] \in {"NONE", "EBR"} /\ h[i + 1] \in {"NONE", "EBR"}
  <2>1. /\ h[1] \in {"NONE", "EBR"} /\ h[2] \in {"NONE", "EBR"} /\ h[3] \in {"NONE", "EBR"}
    BY <1>2, <1>4 DEF Look4
  <2> QED BY <1>2, <2>1
<1>9. ASSUME NEW i \in 0 .. 3, m[i].type = "data" PROVE PastEnd(m[i]) <= sector \/ sector < m[i].start
  <2>1. m[i].as = "PRIMARY" /\ m[i].start \in Nat /\ m[i].len \in Nat /\ m[i].len > 0
    BY <1>9 DEF Shape, EntryShape
  <2>2. ~Mbr!Covers(m[i], sector)
    BY <1>3, <1>5, <1>6, <1>7, <1>8, <2>1 DEF Look4
  <2> QED BY <2>1, <2>2 DEF Mbr!Covers, Mbr!LastLBA, PastEnd
<1> QED BY <1>6, <1>7, <1>9

\* Two entries, one of them a partition on the disk, do not begin or end side by side
\* inside it.
LEMMA ApartInside ==
  ASSUME NEW m, Shape(m), NEW j \in 0 .. 3, NEW k \in 0 .. 3, m[k].type = "data", Inside(m[k]),
         m[j].start # m[k].start \/ m[j].len # m[k].len, m[j].start > 0 \/ m[j].len > 0
  PROVE  Off(m[j], m[k]) /\ m[j].len > 0
<1>1. EntryShape(m[j])
  BY DEF Shape
<1>2. m[j].type = "data" \/ m[j].type = "ee"
  BY <1>1 DEF EntryShape
<1>3. m[j] # m[k]
  OBVIOUS
<1>4. Off(m[j], m[k])
  BY <1>2, <1>3 DEF Shape
<1> QED BY <1>1, <1>2, <1>4 DEF EntryShape

\* FindLastInFree() ends in front of the next partition.
LEMMA LastBefore ==
  ASSUME NEW m, Shape(m), NEW start \in Nat
  PROVE  LET r == Mbr!FindLastInFree(m, start)
         IN  /\ r \in Int /\ r < DiskSize /\ (start < DiskSize => start <= r)
             /\ \A k \in 0 .. 3 : m[k].type = "data" /\ Inside(m[k]) /\ m[k].start > start => r < m[k].start
<1> DEFINE r == Mbr!FindLastInFree(m, start)
<1>1. PICK h : Steps(h, 4, DiskSize - 1, Int, Last4Step(m, start)) /\ r = h[4]
  BY ShapeNumbers, Last4Steps
<1> HIDE DEF r
<1>2. ASSUME NEW i \in 0 .. 3 PROVE h[i] \in Int /\ h[i + 1] = Last4(m, start, h[i], i)
  <2>1. i + 1 \in 1..4 /\ i \in 0..4 /\ (i + 1) - 1 = i
    OBVIOUS
  <2>2. h[i] \in Int /\ h[i + 1] = Last4Step(m, start)[<<i + 1, h[i]>>]
    BY <1>1, <2>1 DEF Steps
  <2> QED BY <2>1, <2>2 DEF Last4Step
<1>3. /\ h[1] = Last4(m, start, h[0], 0) /\ h[2] = Last4(m, start, h[1], 1)
      /\ h[3] = Last4(m, start, h[2], 2) /\ r = Last4(m, start, h[3], 3)
      /\ h[0] = DiskSize - 1 /\ h[1] \in Int /\ h[2] \in Int /\ h[3] \in Int
  BY <1>1, <1>2 DEF Steps
<1>4. DiskSize \in Nat /\ m[0].start \in Nat /\ m[1].start \in Nat /\ m[2].start \in Nat /\ m[3].start \in Nat
  BY Widths, ShapeNumbers DEF Numbered
<1>5. r \in Int /\ r < DiskSize /\ (start < DiskSize => start <= r)
  BY <1>3, <1>4 DEF Last4
<1>6. \A k \in 0 .. 3 : m[k].start > start => r <= m[k].start
  <2>1. /\ m[0].start > start => r <= m[0].start
        /\ m[1].start > start => r <= m[1].start
        /\ m[2].start > start => r <= m[2].start
        /\ m[3].start > start => r <= m[3].start
    BY <1>3, <1>4 DEF Last4
  <2> QED BY <2>1
<1>7. r = DiskSize - 1 \/ \E j \in 0 .. 3 : r = m[j].start - 1
  <2>1. \/ r = DiskSize - 1 \/ r = m[0].start - 1 \/ r = m[1].start - 1
        \/ r = m[2].start - 1 \/ r = m[3].start - 1
    BY <1>3, <1>4 DEF Last4
  <2> QED BY <2>1
<1>8. ASSUME NEW k \in 0 .. 3, m[k].type = "data", Inside(m[k]), m[k].start > start PROVE r < m[k].start
  <2> SUFFICES ASSUME r = m[k].start PROVE FALSE
    BY <1>4, <1>5, <1>6, <1>8, ShapeNumbers DEF Numbered
  <2>1. m[k].start \in Nat /\ m[k].len \in Nat
    BY ShapeNumbers DEF Numbered
  <2>2. r # DiskSize - 1
    BY <1>4, <1>8, <2>1 DEF Inside, PastEnd
  <2>3. PICK j \in 0 .. 3 : r = m[j].start - 1
    BY <1>7, <2>2
  <2>4. m[j].start \in Nat /\ m[j].len \in Nat /\ m[j].start = m[k].start + 1
    BY <2>1, <2>3, ShapeNumbers DEF Numbered
  <2>5. Off(m[j], m[k]) /\ m[j].len > 0
    BY <1>8, <2>1, <2>4, ApartInside
  <2> QED BY <1>8, <2>1, <2>4, <2>5 DEF Off, PastEnd, Inside
<1> QED BY <1>5, <1>8 DEF r

\* FindFirstInFree() begins behind the partition in front.
LEMMA FirstBehind ==
  ASSUME NEW m, Shape(m), NEW start \in Nat, start > 0
  PROVE  LET r == Mbr!FindFirstInFree(m, start)
         IN  /\ r \in Nat /\ r > 0 /\ r <= start
             /\ \A k \in 0 .. 3 : m[k].type = "data" /\ Inside(m[k]) /\ PastEnd(m[k]) <= start => PastEnd(m[k]) <= r
<1> DEFINE r == Mbr!FindFirstInFree(m, start)
           E(i) == Mbr!LastLBA(m[i])
<1>1. PICK h : Steps(h, 4, 1, Nat, First4Step(m, start)) /\ r = h[4]
  BY ShapeNumbers, First4Steps
<1> HIDE DEF r
<1>2. ASSUME NEW i \in 0 .. 3 PROVE h[i] \in Nat /\ h[i + 1] = First4(m, start, h[i], i)
  <2>1. i + 1 \in 1..4 /\ i \in 0..4 /\ (i + 1) - 1 = i
    OBVIOUS
  <2>2. h[i] \in Nat /\ h[i + 1] = First4Step(m, start)[<<i + 1, h[i]>>]
    BY <1>1, <2>1 DEF Steps
  <2> QED BY <2>1, <2>2 DEF First4Step
<1>3. \A i \in 0 .. 3 : E(i) \in Nat /\ (m[i].len > 0 => E(i) = PastEnd(m[i]) - 1) /\ (m[i].len = 0 => E(i) = 0)
  BY ShapeNumbers DEF Numbered, Mbr!LastLBA, PastEnd
<1> HIDE DEF E
<1>4. /\ h[1] = IF E(0) > h[0] /\ E(0) < start THEN E(0) + 1 ELSE h[0]
      /\ h[2] = IF E(1) > h[1] /\ E(1) < start THEN E(1) + 1 ELSE h[1]
      /\ h[3] = IF E(2) > h[2] /\ E(2) < start THEN E(2) + 1 ELSE h[2]
      /\ r = IF E(3) > h[3] /\ E(3) < start THEN E(3) + 1 ELSE h[3]
      /\ h[0] = 1 /\ h[1] \in Nat /\ h[2] \in Nat /\ h[3] \in Nat
  <2>1. /\ h[1] = First4(m, start, h[0], 0) /\ h[2] = First4(m, start, h[1], 1)
        /\ h[3] = First4(m, start, h[2], 2) /\ r = First4(m, start, h[3], 3)
    BY <1>1, <1>2
  <2>2. h[0] = 1 /\ h[1] \in Nat /\ h[2] \in Nat /\ h[3] \in Nat
    BY <1>1, <1>2 DEF Steps
  <2> QED BY <2>1, <2>2 DEF First4, E
<1>5. E(0) \in Nat /\ E(1) \in Nat /\ E(2) \in Nat /\ E(3) \in Nat
  BY <1>3
<1>6. r \in Nat /\ r > 0 /\ r <= start
  BY <1>4, <1>5
<1>7. \A k \in 0 .. 3 : E(k) < start => E(k) <= r
  <2>1. /\ E(0) < start => E(0) <= r
        /\ E(1) < start => E(1) <= r
        /\ E(2) < start => E(2) <= r
        /\ E(3) < start => E(3) <= r
    BY <1>4, <1>5
  <2> QED BY <2>1
<1>8. r = 1 \/ \E j \in 0 .. 3 : r = E(j) + 1 /\ E(j) > 0
  <2>1. \/ r = 1 \/ (r = E(0) + 1 /\ E(0) > 0) \/ (r = E(1) + 1 /\ E(1) > 0)
        \/ (r = E(2) + 1 /\ E(2) > 0) \/ (r = E(3) + 1 /\ E(3) > 0)
    BY <1>4, <1>5
  <2> QED BY <2>1
<1>9. ASSUME NEW k \in 0 .. 3, m[k].type = "data", Inside(m[k]), PastEnd(m[k]) <= start
      PROVE  PastEnd(m[k]) <= r
  <2>1. m[k].start \in Nat /\ m[k].len \in Nat /\ m[k].start > 1 /\ m[k].len > 1
    BY <1>9, ShapeNumbers DEF Numbered, Inside
  <2>2. E(k) = PastEnd(m[k]) - 1 /\ PastEnd(m[k]) \in Nat /\ E(k) > 1 /\ E(k) < start
    BY <1>3, <1>9, <2>1 DEF PastEnd
  <2> SUFFICES ASSUME r = E(k) PROVE FALSE
    BY <1>6, <1>7, <2>2
  <2>3. PICK j \in 0 .. 3 : r = E(j) + 1 /\ E(j) > 0
    BY <1>8, <2>2
  <2>4. m[j].start \in Nat /\ m[j].len \in Nat /\ m[j].len > 0 /\ E(j) = PastEnd(m[j]) - 1
    BY <1>3, <2>3, ShapeNumbers DEF Numbered
  <2>5. PastEnd(m[j]) = PastEnd(m[k]) - 1
    BY <2>2, <2>3, <2>4 DEF PastEnd
  <2>6. m[j].start # m[k].start \/ m[j].len # m[k].len
    BY <2>1, <2>4, <2>5 DEF PastEnd
  <2>7. Off(m[j], m[k])
    BY <1>9, <2>4, <2>6, ApartInside
  <2> QED BY <2>1, <2>4, <2>5, <2>7 DEF Off, PastEnd
<1> QED BY <1>6, <1>9 DEF r

\* What the loop of OptimizeEESize() does with an entry of type EE: it ends on the
\* disk, goes on covering sector 1, and keeps off the partitions.
OverHeader(e) == e.start <= 1 /\ PastEnd(e) > 1

LEMMA ShapeWith ==
  ASSUME NEW m, Shape(m), NEW i \in 0 .. 3, NEW n, n[i].type = "ee", EntryShape(n[i]),
         \A k \in 0 .. 3 : k # i => n[k] = m[k],
         \A k \in 0 .. 3 : m[k].type = "data" /\ Inside(m[k]) /\ k # i => Off(n[i], m[k])
  PROVE  Shape(n)
<1>1. ASSUME NEW k \in 0 .. 3 PROVE EntryShape(n[k])
  BY DEF Shape
<1>2. ASSUME NEW j \in 0 .. 3, NEW k \in 0 .. 3, n[k].type = "data"
      PROVE  /\ n[j].type = "data" /\ n[j] # n[k] => Off(n[j], n[k])
             /\ n[j].type = "ee" /\ Inside(n[k]) => Off(n[j], n[k])
  <2>1. k # i /\ n[k] = m[k] /\ (j # i => n[j] = m[j])
    BY <1>2
  <2> HIDE DEF Inside, Off, EntryShape
  <2> QED BY <1>2, <2>1 DEF Shape
<1> QED BY <1>1, <1>2 DEF Shape

LEMMA StretchShape ==
  ASSUME NEW m, MbrOK(m), Shape(m), NEW i \in 0 .. 3, m[i].type = "ee"
  PROVE  LET n == Mbr!StretchEE(m, i)
         IN  /\ Shape(n) /\ n[i].type = "ee" /\ PastEnd(n[i]) <= DiskSize
             /\ \A k \in 0 .. 3 : k # i => n[k] = m[k]
             /\ OverHeader(m[i]) => OverHeader(n[i])
<1> DEFINE p == m[i]
           before == Mbr!Minus64(p.start, 1)
           start == IF Mbr!SectorUsedAs(m, before, 4) = "NONE" THEN Mbr!FindFirstInFree(m, p.start - 1) ELSE p.start
           moved == [m EXCEPT ![i].start = start]
           after == start + p.len
           len == IF after > DiskSize THEN Mbr!Low32(Mbr!Minus64(DiskSize, start))
                  ELSE IF Mbr!SectorUsedAs(moved, after, 4) = "NONE" THEN Mbr!FindLastInFree(moved, after) - start + 1
                  ELSE p.len
           n == Mbr!StretchEE(m, i)
<1>1. n = [moved EXCEPT ![i].len = len]
  BY DEF Mbr!StretchEE
<1>2. /\ p.start \in Nat /\ p.len \in Nat /\ p.len > 0 /\ p.start < DiskSize /\ DiskSize \in Nat
      /\ DiskSize <= Max32 /\ Max32 \in Nat /\ Max64 \in Nat /\ Max64 > 2 * Max32 + 2
  BY Widths, OptionsAssumption DEF Shape, EntryShape, Mbr!LayoutAssumption
<1>3. ASSUME NEW k \in 0 .. 3, m[k].type = "data", Inside(m[k])
      PROVE  m[k].start \in Nat /\ m[k].len \in Nat /\ Off(p, m[k])
  BY <1>3 DEF Shape, EntryShape
<1>4. /\ start \in Nat /\ start <= p.start /\ (start = p.start \/ (p.start > 1 /\ start > 0))
      /\ \A k \in 0 .. 3 : m[k].type = "data" /\ Inside(m[k]) => PastEnd(m[k]) <= start \/ p.start <= m[k].start
  <2>1. CASE Mbr!SectorUsedAs(m, before, 4) = "NONE"
    <3>1. before \in Nat
      BY <1>2 DEF Mbr!Minus64
    <3>2. /\ before < DiskSize /\ before > 0
          /\ \A k \in 0 .. 3 : m[k].type = "data" => PastEnd(m[k]) <= before \/ before < m[k].start
      BY <2>1, <3>1, UnusedSector
    <3>3. p.start > 1 /\ before = p.start - 1
      BY <1>2, <3>2 DEF Mbr!Minus64
    <3>4. start = Mbr!FindFirstInFree(m, before)
      BY <2>1, <3>3
    <3> HIDE DEF before, start
    <3>5. /\ start \in Nat /\ start > 0 /\ start <= before
          /\ \A k \in 0 .. 3 : m[k].type = "data" /\ Inside(m[k]) /\ PastEnd(m[k]) <= before => PastEnd(m[k]) <= start
      BY <3>1, <3>2, <3>4, FirstBehind
    <3>6. ASSUME NEW k \in 0 .. 3, m[k].type = "data", Inside(m[k])
          PROVE  PastEnd(m[k]) <= start \/ p.start <= m[k].start
      BY <1>2, <1>3, <3>2, <3>3, <3>5, <3>6
    <3> QED BY <1>2, <3>1, <3>3, <3>5, <3>6
  <2>2. CASE Mbr!SectorUsedAs(m, before, 4) # "NONE"
    <3>1. start = p.start
      BY <2>2
    <3> HIDE DEF start
    <3>2. ASSUME NEW k \in 0 .. 3, m[k].type = "data", Inside(m[k])
          PROVE  PastEnd(m[k]) <= start \/ p.start <= m[k].start
      BY <1>2, <1>3, <3>1, <3>2 DEF Off, PastEnd
    <3> QED BY <1>2, <3>1, <3>2
  <2> QED BY <2>1, <2>2
<1> HIDE DEF start
<1>5. DOMAIN m = Mbr!Slots /\ DOMAIN m[i] = EntryFields /\ 0 .. 3 \subseteq Mbr!Slots
  BY Widths DEF MbrOK, EntryOK
<1>6. /\ moved[i].start = start /\ moved[i].len = p.len /\ moved[i].type = "ee"
      /\ \A k \in 0 .. 3 : k # i => moved[k] = m[k]
  BY <1>5 DEF EntryFields
<1>7. /\ n[i].start = start /\ n[i].len = len /\ n[i].type = "ee"
      /\ \A k \in 0 .. 3 : k # i => n[k] = m[k]
  <2>1. DOMAIN moved = Mbr!Slots /\ DOMAIN moved[i] = EntryFields
    BY <1>5 DEF EntryFields
  <2> HIDE DEF moved, len, n
  <2> QED BY <1>1, <1>5, <1>6, <2>1 DEF EntryFields
<1> HIDE DEF n, moved, p
<1>8. after \in Nat /\ after > start
  BY <1>2, <1>4
<1>9. ASSUME NEW k \in 0 .. 3, m[k].type = "data", Inside(m[k])
      PROVE  after <= m[k].start \/ PastEnd(m[k]) <= start
  BY <1>2, <1>3, <1>4, <1>9 DEF Off, PastEnd, Inside
<1>10. Shape(moved)
  <2>1. EntryShape(moved[i])
    BY <1>2, <1>4, <1>6 DEF EntryShape
  <2>2. \A k \in 0 .. 3 : m[k].type = "data" /\ Inside(m[k]) /\ k # i => Off(moved[i], m[k])
    BY <1>6, <1>9 DEF Off, PastEnd
  <2> QED BY <1>6, <2>1, <2>2, ShapeWith
<1>11. /\ len \in Nat /\ len > 0 /\ start + len <= DiskSize /\ (start + len >= after \/ start + len = DiskSize)
       /\ \A k \in 0 .. 3 : m[k].type = "data" /\ Inside(m[k]) /\ k # i =>
            start + len <= m[k].start \/ PastEnd(m[k]) <= start
  <2>1. CASE after > DiskSize
    <3>1. Mbr!Minus64(DiskSize, start) = DiskSize - start
      BY <1>2, <1>4 DEF Mbr!Minus64
    <3>2. \A d \in Nat : d <= Max32 => d % (Max32 + 1) = d
      BY <1>2
    <3>3. len = DiskSize - start
      BY <1>2, <1>4, <2>1, <3>1, <3>2 DEF Mbr!Low32
    <3> HIDE DEF after, len
    <3>4. ASSUME NEW k \in 0 .. 3, m[k].type = "data", Inside(m[k]) PROVE PastEnd(m[k]) <= start
      <4>1. m[k].start \in Nat /\ m[k].len \in Nat /\ (after <= m[k].start \/ PastEnd(m[k]) <= start)
        BY <1>3, <1>9, <3>4
      <4> QED BY <1>2, <1>4, <1>8, <2>1, <3>4, <4>1 DEF Inside, PastEnd
    <3> QED BY <1>2, <1>4, <3>3, <3>4
  <2>2. CASE after <= DiskSize /\ Mbr!SectorUsedAs(moved, after, 4) = "NONE"
    <3> DEFINE r == Mbr!FindLastInFree(moved, after)
    <3>1. len = r - start + 1
      BY <1>2, <1>8, <2>2
    <3> HIDE DEF after, len
    <3>2. /\ after < DiskSize
          /\ \A k \in 0 .. 3 : moved[k].type = "data" => PastEnd(moved[k]) <= after \/ after < moved[k].start
      BY <1>8, <1>10, <2>2, UnusedSector
    <3>3. /\ r \in Int /\ r < DiskSize /\ (after < DiskSize => after <= r)
          /\ \A k \in 0 .. 3 : moved[k].type = "data" /\ Inside(moved[k]) /\ moved[k].start > after => r < moved[k].start
      BY <1>8, <1>10, LastBefore
    <3> HIDE DEF r
    <3>4. len \in Nat /\ len > 0 /\ start + len = r + 1 /\ start + len >= after /\ start + len <= DiskSize
      BY <1>2, <1>4, <1>8, <3>1, <3>2, <3>3
    <3>5. ASSUME NEW k \in 0 .. 3, m[k].type = "data", Inside(m[k]), k # i
          PROVE  start + len <= m[k].start \/ PastEnd(m[k]) <= start
      <4>1. m[k].start \in Nat /\ m[k].len \in Nat /\ (after <= m[k].start \/ PastEnd(m[k]) <= start)
        BY <1>3, <1>9, <3>5
      <4>2. moved[k] = m[k]
        BY <1>6, <3>5
      <4>3. PastEnd(m[k]) <= after \/ (after < m[k].start /\ r < m[k].start)
        BY <3>2, <3>3, <3>5, <4>2
      <4> QED BY <1>4, <1>8, <3>3, <3>4, <3>5, <4>1, <4>3 DEF Inside, PastEnd
    <3> QED BY <3>4, <3>5
  <2>3. CASE after <= DiskSize /\ Mbr!SectorUsedAs(moved, after, 4) # "NONE"
    <3>1. len = p.len /\ start + len = after
      BY <1>2, <1>8, <2>3
    <3> HIDE DEF len
    <3> QED BY <1>2, <1>4, <1>8, <1>9, <2>3, <3>1
  <2> QED BY <1>2, <1>8, <2>1, <2>2, <2>3
<1> HIDE DEF len
<1>12. Shape(n)
  <2>1. EntryShape(n[i])
    BY <1>2, <1>4, <1>7, <1>11 DEF EntryShape
  <2>2. \A k \in 0 .. 3 : m[k].type = "data" /\ Inside(m[k]) /\ k # i => Off(n[i], m[k])
    BY <1>7, <1>11 DEF Off, PastEnd
  <2> QED BY <1>7, <2>1, <2>2, ShapeWith
<1>13. PastEnd(n[i]) <= DiskSize
  BY <1>7, <1>11 DEF PastEnd
<1>14. OverHeader(m[i]) => OverHeader(n[i])
  <2> SUFFICES ASSUME OverHeader(p) PROVE OverHeader(n[i])
    BY DEF p
  <2>1. start = p.start /\ p.start <= 1 /\ after > 1
    BY <1>2, <1>4 DEF OverHeader, PastEnd
  <2>2. start + len > 1
    BY <1>2, <1>4, <1>8, <1>11, <2>1, Widths
  <2> QED BY <1>7, <2>1, <2>2 DEF OverHeader, PastEnd
<1> QED BY <1>7, <1>12, <1>13, <1>14 DEF n

\* The same of all of an MBR.
OverMbr(m) == \E i \in 0 .. 3 : m[i].type = "ee" /\ OverHeader(m[i])
OnDisk(m) == \A i \in 0 .. 3 : m[i].type = "ee" => PastEnd(m[i]) <= DiskSize
NoEE(m) == \A i \in 0 .. 3 : m[i].type # "ee"
\* If there is an entry of type EE at all, one covers sector 1.
EECover(m) == OverMbr(m) \/ NoEE(m)
Covers(a, b) == (OverMbr(a) => OverMbr(b)) /\ (EECover(a) => EECover(b))

LEMMA ShapeMeans ==
  ASSUME NEW m, Shape(m)
  PROVE  (HasEE(m) <=> OverMbr(m)) /\ (EndsOnDisk(m) <=> OnDisk(m))
<1>1. ASSUME NEW i \in 0 .. 3, m[i].type = "ee"
      PROVE  /\ Mbr!Covers(m[i], 1) <=> OverHeader(m[i])
             /\ Mbr!LastLBA(m[i]) < DiskSize <=> PastEnd(m[i]) <= DiskSize
  <2>1. m[i].start \in Nat /\ m[i].len \in Nat /\ m[i].len > 0 /\ DiskSize \in Nat
    BY <1>1, Widths DEF Shape, EntryShape
  <2>2. Mbr!LastLBA(m[i]) = PastEnd(m[i]) - 1 /\ PastEnd(m[i]) \in Nat
    BY <2>1 DEF Mbr!LastLBA, PastEnd
  <2> QED BY <2>1, <2>2 DEF Mbr!Covers, OverHeader
<1> QED BY <1>1 DEF HasEE, EndsOnDisk, OverMbr, OnDisk, Entries

LEMMA EmptyShape == EntryShape(Mbr!EmptyPart) /\ Mbr!EmptyPart.type = "none"
BY DEF EntryShape, Mbr!EmptyPart

LEMMA ProtectiveShape ==
  Shape(Mbr!ProtectiveMBR) /\ OverMbr(Mbr!ProtectiveMBR) /\ OnDisk(Mbr!ProtectiveMBR)
<1> DEFINE e == Mbr!MkPart(1, DiskSize - 1, "PRIMARY", "ee")
           m == Mbr!ProtectiveMBR
<1>1. e.start = 1 /\ e.len = DiskSize - 1 /\ e.type = "ee"
  BY DEF Mbr!MkPart
<1>2. DiskSize \in Nat /\ DiskSize > 5 /\ 0 .. 3 \subseteq Mbr!Slots
  BY Widths
<1>3. \A i \in 0 .. 3 : m[i] = IF i = 0 THEN e ELSE Mbr!EmptyPart
  BY <1>2 DEF Mbr!ProtectiveMBR, Mbr!EmptyMBR
<1> HIDE DEF m, e
<1>4. EntryShape(e) /\ OverHeader(e) /\ PastEnd(e) <= DiskSize
  BY <1>1, <1>2 DEF EntryShape, OverHeader, PastEnd
<1>5. \A i \in 0 .. 3 : EntryShape(m[i]) /\ m[i].type # "data" /\ (m[i].type = "ee" => m[i] = e)
  BY <1>1, <1>3, <1>4, EmptyShape
<1>6. Shape(m) /\ OnDisk(m)
  BY <1>4, <1>5 DEF Shape, OnDisk
<1>7. OverMbr(m)
  BY <1>1, <1>3, <1>4 DEF OverMbr
<1> QED BY <1>6, <1>7 DEF m

LEMMA StretchedOne ==
  ASSUME NEW m, MbrOK(m), Shape(m), NEW i \in 0 .. 3
  PROVE  LET n == Mbr!StretchEE(m, i)
         IN  /\ MbrOK(n) /\ Shape(n) /\ (n[i].type = "ee" => PastEnd(n[i]) <= DiskSize)
             /\ \A k \in 0 .. 3 : /\ n[k].type = m[k].type /\ (k # i => n[k] = m[k])
                                  /\ m[k].type = "ee" /\ OverHeader(m[k]) => OverHeader(n[k])
<1> DEFINE n == Mbr!StretchEE(m, i)
<1>1. MbrOK(n)
  BY StretchKeeps, Widths DEF Kept
<1>2. CASE m[i].type # "ee"
  <2>1. n = m
    BY <1>2 DEF Mbr!StretchEE
  <2> HIDE DEF n
  <2> QED BY <1>2, <2>1 DEF n
<1>3. CASE m[i].type = "ee"
  <2>1. /\ Shape(n) /\ n[i].type = "ee" /\ PastEnd(n[i]) <= DiskSize
        /\ \A k \in 0 .. 3 : k # i => n[k] = m[k]
        /\ OverHeader(m[i]) => OverHeader(n[i])
    BY <1>3, StretchShape
  <2> HIDE DEF n
  <2>2. ASSUME NEW k \in 0 .. 3
        PROVE  /\ n[k].type = m[k].type /\ (k # i => n[k] = m[k])
               /\ m[k].type = "ee" /\ OverHeader(m[k]) => OverHeader(n[k])
    BY <1>3, <2>1
  <2> QED BY <1>1, <2>1, <2>2 DEF n
<1> QED BY <1>2, <1>3

LEMMA StretchedAll ==
  ASSUME NEW m, MbrOK(m), Shape(m)
  PROVE  LET n == Mbr!Loop(Mbr!StretchEE, m, Mbr!FirstFour)
         IN  Shape(n) /\ OnDisk(n) /\ Covers(m, n)
<1>1. PICK f : /\ f[0] = m /\ \A k \in 1..4 : f[k] = Mbr!StretchEE(f[k - 1], k - 1)
               /\ Mbr!Loop(Mbr!StretchEE, m, Mbr!FirstFour) = f[4]
  BY StretchLoop
<1>2. f[1] = Mbr!StretchEE(m, 0) /\ f[2] = Mbr!StretchEE(f[1], 1)
      /\ f[3] = Mbr!StretchEE(f[2], 2) /\ f[4] = Mbr!StretchEE(f[3], 3)
  BY <1>1
<1> DEFINE Step(a, b, i) ==
             /\ MbrOK(b) /\ Shape(b) /\ (b[i].type = "ee" => PastEnd(b[i]) <= DiskSize)
             /\ \A k \in 0 .. 3 : /\ b[k].type = a[k].type /\ (k # i => b[k] = a[k])
                                  /\ a[k].type = "ee" /\ OverHeader(a[k]) => OverHeader(b[k])
<1>3. ASSUME NEW a, NEW b, NEW i \in 0 .. 3, MbrOK(a), Shape(a), b = Mbr!StretchEE(a, i) PROVE Step(a, b, i)
  <2>1. Step(a, Mbr!StretchEE(a, i), i)
    BY <1>3, StretchedOne
  <2> HIDE DEF Step
  <2> QED BY <1>3, <2>1
<1>4. Step(m, f[1], 0)
  BY <1>2, <1>3
<1>5. Step(f[1], f[2], 1)
  BY <1>2, <1>3, <1>4
<1>6. Step(f[2], f[3], 2)
  BY <1>2, <1>3, <1>5
<1>7. Step(f[3], f[4], 3)
  BY <1>2, <1>3, <1>6
<1>8. OnDisk(f[4])
  <2>1. f[4][0] = f[1][0] /\ f[4][1] = f[2][1] /\ f[4][2] = f[3][2]
    BY <1>5, <1>6, <1>7
  <2>2. ASSUME NEW i \in 0 .. 3, f[4][i].type = "ee" PROVE PastEnd(f[4][i]) <= DiskSize
    <3>1. CASE i = 0
      BY <1>4, <2>1, <2>2, <3>1
    <3>2. CASE i = 1
      BY <1>5, <2>1, <2>2, <3>2
    <3>3. CASE i = 2
      BY <1>6, <2>1, <2>2, <3>3
    <3>4. CASE i = 3
      BY <1>7, <2>2, <3>4
    <3> QED BY <3>1, <3>2, <3>3, <3>4
  <2> QED BY <2>2 DEF OnDisk
<1>9. ASSUME OverMbr(m) PROVE OverMbr(f[4])
  <2>1. PICK i \in 0 .. 3 : m[i].type = "ee" /\ OverHeader(m[i])
    BY <1>9 DEF OverMbr
  <2>2. f[1][i].type = "ee" /\ OverHeader(f[1][i])
    BY <1>4, <2>1
  <2>3. f[2][i].type = "ee" /\ OverHeader(f[2][i])
    BY <1>5, <2>2
  <2>4. f[3][i].type = "ee" /\ OverHeader(f[3][i])
    BY <1>6, <2>3
  <2>5. f[4][i].type = "ee" /\ OverHeader(f[4][i])
    BY <1>7, <2>4
  <2> QED BY <2>5 DEF OverMbr
<1>10. ASSUME NoEE(m) PROVE NoEE(f[4])
  BY <1>4, <1>5, <1>6, <1>7, <1>10 DEF NoEE
<1> HIDE DEF Step
<1>11. Shape(f[4])
  BY <1>7 DEF Step
<1>12. Covers(m, f[4])
  BY <1>9, <1>10 DEF Covers, EECover
<1> QED BY <1>1, <1>8, <1>11, <1>12

LEMMA OptimizedShape ==
  ASSUME NEW x, MbrPair(x), Shape(x.mbr)
  PROVE  LET y == Mbr!OptimizeEESize(x)
         IN  Shape(y.mbr) /\ OnDisk(y.mbr) /\ Covers(x.mbr, y.mbr)
<1> DEFINE y == Mbr!OptimizeEESize(x)
           n == Mbr!Loop(Mbr!StretchEE, x.mbr, Mbr!FirstFour)
<1>1. Shape(n) /\ OnDisk(n) /\ Covers(x.mbr, n)
  BY StretchedAll DEF MbrPair
<1>2. y = [x EXCEPT !.mbr = Mbr!ProtectiveMBR, !.state = "gpt"] \/ y = [x EXCEPT !.mbr = n]
  BY DEF Mbr!OptimizeEESize
<1> HIDE DEF n, y
<1>3. y.mbr = Mbr!ProtectiveMBR \/ y.mbr = n
  BY <1>2 DEF MbrPair
<1> QED BY <1>1, <1>3, ProtectiveShape DEF y, Covers, EECover

\* An entry that goes, other than of type EE.
LEMMA EmptiedShape ==
  ASSUME NEW m, MbrOK(m), Shape(m), NEW i \in Mbr!Slots, m[i].type # "ee"
  PROVE  LET n == [m EXCEPT ![i] = Mbr!EmptyPart]
         IN  Shape(n) /\ (OnDisk(m) => OnDisk(n)) /\ Covers(m, n)
<1> DEFINE n == [m EXCEPT ![i] = Mbr!EmptyPart]
<1>1. \A k \in 0 .. 3 : n[k] = IF k = i THEN Mbr!EmptyPart ELSE m[k]
  BY Widths DEF MbrOK
<1> HIDE DEF n
<1>2. \A k \in 0 .. 3 : n[k] = m[k] \/ (n[k].type = "none" /\ EntryShape(n[k]) /\ m[k].type # "ee")
  BY <1>1, EmptyShape
<1>3. Shape(n)
  <2>1. \A k \in 0 .. 3 : EntryShape(n[k])
    BY <1>2 DEF Shape
  <2>2. \A k \in 0 .. 3 : n[k].type \in {"data", "ee"} => n[k] = m[k]
    BY <1>2
  <2> HIDE DEF Off, Inside, EntryShape
  <2> QED BY <2>1, <2>2 DEF Shape
<1>4. OnDisk(m) => OnDisk(n)
  BY <1>2 DEF OnDisk
<1>5. Covers(m, n)
  <2>1. OverMbr(m) => OverMbr(n)
    BY <1>2 DEF OverMbr
  <2>2. NoEE(m) => NoEE(n)
    BY <1>2 DEF NoEE
  <2> QED BY <2>1, <2>2 DEF Covers, EECover
<1> QED BY <1>3, <1>4, <1>5 DEF n

LEMMA DeleteStepShape ==
  ASSUME NEW y, MbrPair(y), Shape(y.mbr), OnDisk(y.mbr), NEW p, NEW i \in Mbr!Slots
  PROVE  LET z == DeleteStep(y, p, i)
         IN  MbrPair(z) /\ Shape(z.mbr) /\ OnDisk(z.mbr) /\ Covers(y.mbr, z.mbr)
<1> DEFINE z == DeleteStep(y, p, i)
           deleted == [y EXCEPT !.mbr[i] = Mbr!EmptyPart]
           n == [y.mbr EXCEPT ![i] = Mbr!EmptyPart]
<1>1. MbrPair(z)
  BY DeleteStepKeeps
<1>2. z = y \/ (y.mbr[i].type # "ee" /\ (z = deleted \/ z = Mbr!OptimizeEESize(deleted)))
  BY DEF DeleteStep
<1>3. MbrPair(deleted) /\ deleted.mbr = n
  <2>1. DOMAIN deleted = {"mbr", "state"} /\ deleted.mbr = n /\ deleted.state = y.state
    BY DEF MbrPair
  <2>2. Kept(y.mbr, n)
    BY EmptyEntry, PutOther DEF MbrPair
  <2>3. MbrOK(n) /\ (NoData(y.mbr) => NoData(n))
    <3> HIDE DEF n
    <3> QED BY <2>2, KeptNoData DEF Kept
  <2> HIDE DEF deleted, n
  <2> QED BY <2>1, <2>3 DEF MbrPair
<1> HIDE DEF z, deleted
<1>4. CASE z = y
  BY <1>1, <1>4 DEF z, Covers
<1>5. CASE y.mbr[i].type # "ee" /\ (z = deleted \/ z = Mbr!OptimizeEESize(deleted))
  <2>1. Shape(n) /\ OnDisk(n) /\ Covers(y.mbr, n)
    BY <1>5, EmptiedShape DEF MbrPair
  <2> HIDE DEF n
  <2>2. CASE z = deleted
    BY <1>1, <1>3, <2>1, <2>2 DEF z
  <2>3. CASE z = Mbr!OptimizeEESize(deleted)
    <3>1. Shape(z.mbr) /\ OnDisk(z.mbr) /\ Covers(n, z.mbr)
      BY <1>3, <2>1, <2>3, OptimizedShape
    <3> QED BY <1>1, <2>1, <3>1 DEF z, Covers
  <2> QED BY <1>5, <2>2, <2>3
<1> QED BY <1>2, <1>4, <1>5

LEMMA DeletedShape ==
  ASSUME NEW x, MbrPair(x), Shape(x.mbr), OnDisk(x.mbr), NEW p
  PROVE  LET y == Mbr!DeleteByLocation(x, p)
         IN  Shape(y.mbr) /\ OnDisk(y.mbr) /\ Covers(x.mbr, y.mbr)
<1> DEFINE N == MaxParts
<1>1. PICK f : /\ f[0] = x /\ \A k \in 1..N : f[k] = DeleteStep(f[k - 1], p, k - 1)
               /\ Mbr!DeleteByLocation(x, p) = f[N]
  BY DeleteLoop
<1>2. N \in Nat /\ Mbr!Slots = 0 .. N - 1
  BY Widths
<1> HIDE DEF N
<1> DEFINE S == {k \in 0..N : /\ MbrPair(f[k]) /\ Shape(f[k].mbr) /\ OnDisk(f[k].mbr)
                              /\ Covers(x.mbr, f[k].mbr)}
<1>3. 0 \in S
  BY <1>1, <1>2 DEF Covers
<1>4. ASSUME NEW k \in 0..N - 1, k \in S PROVE k + 1 \in S
  <2>1. k + 1 \in 1..N /\ (k + 1) - 1 = k /\ k \in Mbr!Slots /\ k + 1 \in 0..N
    BY <1>2
  <2>2. f[k + 1] = DeleteStep(f[k], p, k)
    BY <1>1, <2>1
  <2>3. MbrPair(f[k]) /\ Shape(f[k].mbr) /\ OnDisk(f[k].mbr)
    BY <1>4
  <2>4. /\ MbrPair(f[k + 1]) /\ Shape(f[k + 1].mbr) /\ OnDisk(f[k + 1].mbr)
        /\ Covers(f[k].mbr, f[k + 1].mbr)
    BY <2>1, <2>2, <2>3, DeleteStepShape
  <2> QED BY <1>4, <2>1, <2>4 DEF Covers
<1>5. N \in S
  <2>1. 0..N \subseteq S
    <3> HIDE DEF S
    <3> QED BY <1>2, <1>3, <1>4, BoundedInduction
  <2> HIDE DEF S
  <2> QED BY <1>2, <2>1
<1> QED BY <1>1, <1>5

\* What -h, -m and gdisk make of partitions that do not overlap.
LEMMA OffIs ==
  ASSUME NEW e, NEW f, e.start \in Nat, e.len \in Nat, e.len > 0, f.start \in Nat, f.len \in Nat, f.len > 0
  PROVE  Mbr!Overlap(e, f) <=> ~Off(e, f)
<1>1. Mbr!LastLBA(e) = PastEnd(e) - 1 /\ Mbr!LastLBA(f) = PastEnd(f) - 1
      /\ PastEnd(e) \in Nat /\ PastEnd(f) \in Nat /\ PastEnd(e) > e.start /\ PastEnd(f) > f.start
  BY DEF Mbr!LastLBA, PastEnd
<1> QED BY <1>1 DEF Mbr!Overlap, Off

LEMMA MadeShape ==
  ASSUME NEW parts \in Partitions, PartsApart(parts), NEW e, Made(e, parts)
  PROVE  /\ EntryShape(e) /\ e.type \in {"none", "data"}
         /\ e.type = "data" => e.as = "PRIMARY" /\ e.start \in Nat /\ e.len \in Nat /\ e.len > 0
<1>1. CASE e = Mbr!EmptyPart
  BY <1>1, EmptyShape
<1>2. CASE e # Mbr!EmptyPart
  <2>1. PICK p \in UsedParts(parts) : Fits(p) /\ e = Mbr!AsMBR(p)
    BY <1>2 DEF Made
  <2>2. e.start = p.first /\ e.len = p.last - p.first + 1 /\ e.type = "data" /\ e.as = "PRIMARY"
    BY <2>1, AsMBRIs DEF Mbr!LengthOf, Mbr!AsMBR, Mbr!MkPart
  <2>3. p.first \in Nat /\ p.last \in Nat /\ p.first <= p.last
    BY <2>1 DEF Fits, Partition
  <2> QED BY <2>2, <2>3 DEF EntryShape
<1> QED BY <1>1, <1>2

LEMMA MadeApart ==
  ASSUME NEW parts \in Partitions, PartsApart(parts), NEW e, NEW f, Made(e, parts), Made(f, parts),
         e.type = "data", f.type = "data", e # f
  PROVE  Off(e, f)
<1>1. PICK p \in UsedParts(parts) : Fits(p) /\ e = Mbr!AsMBR(p)
  BY EmptyShape DEF Made
<1>2. PICK q \in UsedParts(parts) : Fits(q) /\ f = Mbr!AsMBR(q)
  BY EmptyShape DEF Made
<1>3. ~Overlap(p, q)
  BY <1>1, <1>2 DEF PartsApart
<1>4. /\ e.start = p.first /\ e.len = p.last - p.first + 1
      /\ f.start = q.first /\ f.len = q.last - q.first + 1
  BY <1>1, <1>2, AsMBRIs DEF Mbr!LengthOf
<1>5. p.first \in Nat /\ p.last \in Nat /\ p.first <= p.last /\ q.first \in Nat /\ q.last \in Nat /\ q.first <= q.last
  BY <1>1, <1>2 DEF Fits, Partition
<1> QED BY <1>3, <1>4, <1>5 DEF Off, PastEnd, Overlap

LEMMA MadeMbrApart ==
  ASSUME NEW parts \in Partitions, PartsApart(parts), NEW m, MbrOf(m, parts)
  PROVE  MbrApart(m)
<1>1. ASSUME NEW i \in Mbr!Slots, NEW k \in Mbr!Slots, m[i].type = "data", m[k].type = "data"
      PROVE  m[i].len > 0 /\ (m[i] # m[k] => ~Mbr!Overlap(m[i], m[k]))
  <2>1. Made(m[i], parts) /\ Made(m[k], parts)
    BY <1>1 DEF MbrOf
  <2>2. m[i].start \in Nat /\ m[i].len \in Nat /\ m[i].len > 0 /\ m[k].start \in Nat /\ m[k].len \in Nat /\ m[k].len > 0
    BY <1>1, <2>1, MadeShape
  <2>3. m[i] # m[k] => Off(m[i], m[k])
    BY <1>1, <2>1, MadeApart
  <2> QED BY <2>2, <2>3, OffIs
<1> QED BY <1>1 DEF MbrApart

LEMMA MadeMbrShape ==
  ASSUME NEW parts \in Partitions, PartsApart(parts), NEW m, \A i \in Mbr!Slots : Made(m[i], parts)
  PROVE  Shape(m) /\ OnDisk(m) /\ \A i \in 0 .. 3 : m[i].type # "ee"
<1>1. ASSUME NEW i \in 0 .. 3 PROVE Made(m[i], parts) /\ EntryShape(m[i]) /\ m[i].type \in {"none", "data"}
  <2>1. Made(m[i], parts)
    BY Widths
  <2> QED BY <2>1, MadeShape
<1>2. ASSUME NEW i \in 0 .. 3, NEW k \in 0 .. 3, m[i].type = "data", m[k].type = "data", m[i] # m[k]
      PROVE  Off(m[i], m[k])
  BY <1>1, <1>2, MadeApart
<1>3. \A i \in 0 .. 3 : m[i].type # "ee"
  BY <1>1
<1>4. Shape(m)
  <2> HIDE DEF Off, Inside, EntryShape, Made
  <2> QED BY <1>1, <1>2, <1>3 DEF Shape
<1> QED BY <1>3, <1>4 DEF OnDisk

\* The entry of type EE put among them.
LEMMA ProtectedShape ==
  ASSUME NEW m, DOMAIN m = Mbr!Slots, Shape(m), OnDisk(m), NEW i \in 0 .. 3
  PROVE  LET n == [m EXCEPT ![i] = Mbr!EE(m)] IN Shape(n) /\ OnDisk(n) /\ OverHeader(n[i]) /\ n[i].type = "ee"
<1> DEFINE e == Mbr!EE(m)
           r == Mbr!FindLastInFree(m, 1)
           n == [m EXCEPT ![i] = e]
<1>1. /\ r \in Int /\ r < DiskSize /\ (1 < DiskSize => 1 <= r)
      /\ \A k \in 0 .. 3 : m[k].type = "data" /\ Inside(m[k]) /\ m[k].start > 1 => r < m[k].start
  BY LastBefore
<1>2. e.start = 1 /\ e.len = r /\ e.type = "ee"
  BY DEF Mbr!EE, Mbr!MkPart
<1>3. DiskSize \in Nat /\ 1 < DiskSize /\ 0 .. 3 \subseteq Mbr!Slots
  BY Widths
<1> HIDE DEF r, e
<1>4. n[i] = e /\ \A k \in 0 .. 3 : k # i => n[k] = m[k]
  BY <1>3
<1> HIDE DEF n
<1>5. EntryShape(n[i]) /\ OverHeader(n[i]) /\ n[i].type = "ee" /\ PastEnd(n[i]) <= DiskSize
  BY <1>1, <1>2, <1>3, <1>4 DEF EntryShape, OverHeader, PastEnd
<1>6. ASSUME NEW k \in 0 .. 3, m[k].type = "data", Inside(m[k]) PROVE Off(n[i], m[k])
  <2>1. r < m[k].start /\ m[k].start \in Nat
    BY <1>1, <1>6, ShapeNumbers DEF Inside, Numbered
  <2> QED BY <1>1, <1>2, <1>4, <2>1 DEF Off, PastEnd
<1>7. Shape(n)
  BY <1>4, <1>5, <1>6, ShapeWith
<1>8. OnDisk(n)
  BY <1>4, <1>5 DEF OnDisk
<1> QED BY <1>5, <1>7, <1>8 DEF n, e

LEMMA BuiltShape ==
  ASSUME NEW parts \in Partitions, PartsApart(parts), NEW list \in Seq(Nat),
         NEW hybrid \in BOOLEAN, NEW eeLast \in BOOLEAN,
         Mbr!BuildMBR(parts, list, hybrid, eeLast).ok
  PROVE  LET m == Mbr!BuildMBR(parts, list, hybrid, eeLast).mbr
         IN  MbrApart(m) /\ Shape(m) /\ OnDisk(m) /\ EECover(m) /\ (hybrid => OverMbr(m))
<1> DEFINE offset == IF hybrid /\ ~eeLast THEN 1 ELSE 0
           Listed(i) == i - offset + 1 \in DOMAIN list /\ Mbr!UsedPart(parts, list[i - offset + 1])
           entries == [i \in Mbr!Slots |-> IF Listed(i) THEN Mbr!AsMBR(parts[list[i - offset + 1]])
                                           ELSE Mbr!EmptyPart]
           ee == IF eeLast THEN Len(list) ELSE 0
           m == Mbr!BuildMBR(parts, list, hybrid, eeLast).mbr
<1>1. /\ m = IF hybrid THEN [entries EXCEPT ![ee] = Mbr!EE(entries)] ELSE entries
      /\ Len(list) <= IF hybrid THEN 3 ELSE 4
      /\ \A k \in DOMAIN list : Mbr!UsedPart(parts, list[k]) /\ Mbr!IsSizedForMBR(parts[list[k]]) = "GOOD"
  BY DEF Mbr!BuildMBR
<1>2. ASSUME NEW i \in Mbr!Slots PROVE Made(entries[i], parts)
  <2>1. CASE Listed(i)
    <3>1. entries[i] = Mbr!AsMBR(parts[list[i - offset + 1]])
      BY <2>1
    <3>2. Mbr!UsedPart(parts, list[i - offset + 1])
          /\ Mbr!IsSizedForMBR(parts[list[i - offset + 1]]) # "BAD"
      BY <1>1, <2>1
    <3> QED BY <3>1, <3>2, UsedOne
  <2>2. CASE ~Listed(i)
    BY <2>2 DEF Made
  <2> QED BY <2>1, <2>2
<1>3. DOMAIN entries = Mbr!Slots
  OBVIOUS
<1> HIDE DEF entries, m
<1>4. Shape(entries) /\ OnDisk(entries) /\ NoEE(entries)
  BY <1>2, MadeMbrShape DEF NoEE
<1>5. CASE hybrid
  <2>1. ee \in 0 .. 3
    <3>1. Len(list) \in Nat /\ Len(list) <= 3
      BY <1>1, <1>5
    <3>2. CASE eeLast
      <4>1. Len(list) \in 0 .. 3
        <5> DEFINE n == Len(list)
        <5>1. n \in Nat /\ n <= 3
          BY <3>1
        <5> HIDE DEF n
        <5>2. n \in 0 .. 3
          BY <5>1
        <5> QED BY <5>2 DEF n
      <4>2. ee = Len(list)
        BY <3>2, Zenon
      <4> HIDE DEF ee
      <4> QED BY <4>1, <4>2
    <3>3. CASE ~eeLast
      BY <3>3
    <3> QED BY <3>2, <3>3
  <2> HIDE DEF ee
  <2>2. m = [entries EXCEPT ![ee] = Mbr!EE(entries)]
    BY <1>1, <1>5
  <2>3. Shape(m) /\ OnDisk(m) /\ OverHeader(m[ee]) /\ m[ee].type = "ee"
    BY <1>3, <1>4, <2>1, <2>2, ProtectedShape
  <2>4. OverMbr(m)
    BY <2>1, <2>3 DEF OverMbr
  <2>5. MbrOf(m, parts)
    <3>1. EntryOK(Mbr!EE(entries)) /\ Mbr!EE(entries).type # "data"
      BY MadeEntry DEF Mbr!EE
    <3>2. DOMAIN m = Mbr!Slots /\ \A i \in Mbr!Slots : m[i] = entries[i] \/ m[i] = Mbr!EE(entries)
      BY <1>3, <2>2
    <3> QED BY <1>2, <3>1, <3>2 DEF MbrOf
  <2> QED BY <2>3, <2>4, <2>5, MadeMbrApart DEF m, EECover
<1>6. CASE ~hybrid
  <2>1. m = entries
    BY <1>1, <1>6
  <2>2. MbrOf(m, parts)
    BY <1>2, <1>3, <2>1 DEF MbrOf
  <2> QED BY <1>4, <1>6, <2>1, <2>2, MadeMbrApart DEF m, EECover
<1> QED BY <1>5, <1>6

-----------------------------------------------------------------------------
(* The search of MakeBiggestPart().                                         *)

\* No entry holds the sector.
Open(m, sector) == \A i \in 0 .. 3 : ~(m[i].start <= sector /\ sector < PastEnd(m[i]))
NextOpen(m, x) == CHOOSE s \in Nat : /\ x <= s /\ Open(m, s) /\ \A z \in x .. s - 1 : ~Open(m, z)

LEMMA PassIs ==
  ASSUME NEW m, Numbered(m), NEW from \in Nat
  PROVE  LET x == PassOnce(m, from) IN
         /\ x \in Nat /\ from <= x
         /\ \A z \in from .. x - 1 : ~Open(m, z)
         /\ x = from => Open(m, from)
<1> DEFINE x == PassOnce(m, from)
           In(i, z) == m[i].start <= z /\ z < PastEnd(m[i])
<1>1. PICK h : Steps(h, 4, from, Nat, Pass4Step(m)) /\ x = h[4]
  BY Pass4Steps
<1> HIDE DEF x
<1>2. ASSUME NEW i \in 0 .. 3
      PROVE  h[i] \in Nat /\ h[i + 1] \in Nat /\ h[i + 1] = IF In(i, h[i]) THEN PastEnd(m[i]) ELSE h[i]
  <2>1. i + 1 \in 1..4 /\ i \in 0..4 /\ i + 1 \in 0..4 /\ (i + 1) - 1 = i
    OBVIOUS
  <2>2. h[i] \in Nat /\ h[i + 1] \in Nat /\ h[i + 1] = Pass4Step(m)[<<i + 1, h[i]>>]
    BY <1>1, <2>1 DEF Steps
  <2> QED BY <2>1, <2>2 DEF Pass4Step, Pass4, PastEnd
<1>3. ASSUME NEW i \in 0 .. 3
      PROVE  /\ h[i] <= h[i + 1] /\ (h[i + 1] = h[i] => ~In(i, h[i]))
             /\ \A z \in h[i] .. h[i + 1] - 1 : ~Open(m, z)
  <2>1. m[i].start \in Nat /\ PastEnd(m[i]) \in Nat
    BY DEF Numbered, PastEnd
  <2>2. CASE In(i, h[i])
    <3>1. h[i + 1] = PastEnd(m[i]) /\ h[i] < h[i + 1] /\ h[i] \in Nat /\ m[i].start <= h[i]
      BY <1>2, <2>1, <2>2
    <3>2. ASSUME NEW z \in h[i] .. h[i + 1] - 1 PROVE ~Open(m, z)
      <4>1. In(i, z)
        BY <2>1, <3>1
      <4> QED BY <4>1 DEF Open
    <3>3. h[i] <= h[i + 1] /\ h[i + 1] # h[i]
      BY <1>2, <3>1
    <3> HIDE DEF In
    <3> QED BY <3>2, <3>3
  <2>3. CASE ~In(i, h[i])
    <3>1. h[i + 1] = h[i] /\ h[i] \in Nat
      BY <1>2, <2>3
    <3> QED BY <2>3, <3>1
  <2> QED BY <2>2, <2>3
<1> HIDE DEF In
<1>4. /\ h[0] = from /\ x = h[4] /\ h[1] \in Nat /\ h[2] \in Nat /\ h[3] \in Nat /\ h[4] \in Nat
      /\ h[0] <= h[1] /\ h[1] <= h[2] /\ h[2] <= h[3] /\ h[3] <= h[4]
  <2>1. h[0] = from /\ x = h[4]
    BY <1>1 DEF Steps
  <2>2. h[1] \in Nat /\ h[0] <= h[1]
    BY <1>2, <1>3
  <2>3. h[2] \in Nat /\ h[1] <= h[2]
    BY <1>2, <1>3
  <2>4. h[3] \in Nat /\ h[2] <= h[3]
    BY <1>2, <1>3
  <2>5. h[4] \in Nat /\ h[3] <= h[4]
    BY <1>2, <1>3
  <2> QED BY <2>1, <2>2, <2>3, <2>4, <2>5
<1>5. ASSUME NEW z \in from .. x - 1 PROVE ~Open(m, z)
  <2>1. \/ z \in h[0] .. h[1] - 1 \/ z \in h[1] .. h[2] - 1 \/ z \in h[2] .. h[3] - 1 \/ z \in h[3] .. h[4] - 1
    BY <1>4
  <2>2. /\ \A y \in h[0] .. h[1] - 1 : ~Open(m, y)
        /\ \A y \in h[1] .. h[2] - 1 : ~Open(m, y)
        /\ \A y \in h[2] .. h[3] - 1 : ~Open(m, y)
        /\ \A y \in h[3] .. h[4] - 1 : ~Open(m, y)
    BY <1>3
  <2> QED BY <2>1, <2>2
<1>6. ASSUME x = from PROVE Open(m, from)
  <2>1. h[0] = from /\ h[1] = from /\ h[2] = from /\ h[3] = from /\ h[4] = from
    BY <1>4, <1>6
  <2>2. ~In(0, h[0]) /\ ~In(1, h[1]) /\ ~In(2, h[2]) /\ ~In(3, h[3])
    BY <1>3, <2>1
  <2>3. \A i \in 0 .. 3 : ~In(i, from)
    BY <2>1, <2>2
  <2> QED BY <2>3 DEF Open, In
<1>7. x \in Nat /\ from <= x
  BY <1>4
<1> QED BY <1>5, <1>6, <1>7 DEF x

LEMMA NextOpenIs ==
  ASSUME NEW m, Numbered(m), NEW x \in Nat
  PROVE  /\ NextOpen(m, x) \in Nat /\ x <= NextOpen(m, x) /\ Open(m, NextOpen(m, x))
         /\ \A z \in x .. NextOpen(m, x) - 1 : ~Open(m, z)
<1> DEFINE T == {s \in Nat : x <= s /\ Open(m, s)}
           b == x + PastEnd(m[0]) + PastEnd(m[1]) + PastEnd(m[2]) + PastEnd(m[3])
<1>1. T # {}
  <2>1. /\ PastEnd(m[0]) \in Nat /\ PastEnd(m[1]) \in Nat
        /\ PastEnd(m[2]) \in Nat /\ PastEnd(m[3]) \in Nat
    BY DEF Numbered, PastEnd
  <2>2. /\ b \in Nat /\ x <= b /\ PastEnd(m[0]) <= b /\ PastEnd(m[1]) <= b
        /\ PastEnd(m[2]) <= b /\ PastEnd(m[3]) <= b
    BY <2>1
  <2> HIDE DEF b
  <2>3. ASSUME NEW i \in 0 .. 3 PROVE ~(b < PastEnd(m[i]))
    <3>1. i = 0 \/ i = 1 \/ i = 2 \/ i = 3
      OBVIOUS
    <3> QED BY <2>1, <2>2, <3>1
  <2>4. Open(m, b)
    BY <2>3 DEF Open
  <2> QED BY <2>2, <2>4
<1> HIDE DEF b
<1>2. PICK s \in T : \A k \in T : s <= k
  <2> HIDE DEF T
  <2> QED BY <1>1, LeastNumber DEF T
<1>3. s \in Nat /\ x <= s /\ Open(m, s) /\ \A z \in x .. s - 1 : ~Open(m, z)
  BY <1>2
<1> QED BY <1>3 DEF NextOpen

LEMMA NextOpenUnique ==
  ASSUME NEW m, Numbered(m), NEW x \in Nat, NEW s \in Nat,
         x <= s, Open(m, s), \A z \in x .. s - 1 : ~Open(m, z)
  PROVE  NextOpen(m, x) = s
<1> DEFINE n == NextOpen(m, x)
<1>1. n \in Nat /\ x <= n /\ Open(m, n) /\ \A z \in x .. n - 1 : ~Open(m, z)
  BY NextOpenIs
<1> HIDE DEF n
<1>2. ~(n < s) /\ ~(s < n)
  BY <1>1
<1> QED BY <1>1, <1>2 DEF n

LEMMA OpenAfterPass ==
  ASSUME NEW m, Numbered(m), NEW x \in Nat
  PROVE  LET q == PassOnce(m, x) IN
         /\ q \in Nat
         /\ q = x => NextOpen(m, x) = x
         /\ q # x => x < q /\ NextOpen(m, x) = NextOpen(m, q)
<1> DEFINE q == PassOnce(m, x)
<1>1. /\ q \in Nat /\ x <= q /\ \A z \in x .. q - 1 : ~Open(m, z)
      /\ q = x => Open(m, x)
  BY PassIs
<1> HIDE DEF q
<1>2. CASE q = x
  <2>1. \A z \in x .. x - 1 : ~Open(m, z)
    OBVIOUS
  <2> QED BY <1>1, <1>2, <2>1, NextOpenUnique DEF q
<1>3. CASE q # x
  <2> DEFINE s == NextOpen(m, q)
  <2>1. s \in Nat /\ q <= s /\ Open(m, s) /\ \A z \in q .. s - 1 : ~Open(m, z)
    BY <1>1, NextOpenIs
  <2> HIDE DEF s
  <2>2. x <= s /\ \A z \in x .. s - 1 : ~Open(m, z)
    BY <1>1, <2>1
  <2>3. NextOpen(m, x) = s
    BY <2>1, <2>2, NextOpenUnique
  <2> QED BY <1>1, <1>3, <2>3 DEF s, q
<1> QED BY <1>2, <1>3

LEMMA OpenFound ==
  ASSUME NEW m, Numbered(m), NEW start \in Nat
  PROVE  LET r == Mbr!FindFirstAvailable(m, start) IN
         /\ r \in Nat /\ r < DiskSize
         /\ r # 0 => start <= r /\ Open(m, r)
<1> DEFINE Is(f) == f = [x \in Nat |-> LET q == PassOnce(m, x) IN IF q = x THEN x ELSE f[q]]
           F == CHOOSE f : Is(f)
           G == [x \in Nat |-> NextOpen(m, x)]
           r == Mbr!FindFirstAvailable(m, start)
<1>1. r = IF start >= Max32 - 1 \/ start >= DiskSize - 1 \/ F[start] >= DiskSize \/ F[start] > Max32
          THEN 0 ELSE F[start]
  BY DEF Mbr!FindFirstAvailable, PassOnce, Pass4
<1> HIDE DEF r
<1>2. Is(G)
  <2>1. ASSUME NEW x \in Nat
        PROVE  NextOpen(m, x) = LET q == PassOnce(m, x) IN IF q = x THEN x ELSE G[q]
    <3>1. PassOnce(m, x) \in Nat
      BY OpenAfterPass
    <3>2. G[PassOnce(m, x)] = NextOpen(m, PassOnce(m, x))
      BY <3>1
    <3> HIDE DEF G
    <3> QED BY <3>2, OpenAfterPass
  <2> QED BY <2>1
<1>3. Is(F)
  <2> HIDE DEF Is
  <2> QED BY <1>2
<1> HIDE DEF F
<1> DEFINE T == {d \in Nat : \E x \in Nat : NextOpen(m, x) = x + d /\ F[x] # NextOpen(m, x)}
<1>4. T = {}
  <2>1. SUFFICES ASSUME T # {} PROVE FALSE
    OBVIOUS
  <2>2. PICK d \in T : \A k \in T : d <= k
    <3> HIDE DEF T
    <3> QED BY <2>1, LeastNumber DEF T
  <2>3. PICK x \in Nat : NextOpen(m, x) = x + d /\ F[x] # NextOpen(m, x)
    BY <2>2
  <2> DEFINE q == PassOnce(m, x)
  <2>4. q \in Nat /\ q # x /\ x < q /\ NextOpen(m, x) = NextOpen(m, q) /\ F[x] = F[q]
    BY <1>3, <2>3, OpenAfterPass
  <2>5. NextOpen(m, q) \in Nat /\ q <= NextOpen(m, q)
    BY <2>4, NextOpenIs
  <2> HIDE DEF q
  <2> DEFINE e == NextOpen(m, q) - q
  <2>6. e \in Nat /\ NextOpen(m, q) = q + e /\ e < d
    BY <2>2, <2>3, <2>4, <2>5
  <2>7. e \in T
    BY <2>3, <2>4, <2>6
  <2> QED BY <2>2, <2>6, <2>7
<1>5. F[start] = NextOpen(m, start)
  <2> DEFINE d == NextOpen(m, start) - start
  <2>1. NextOpen(m, start) \in Nat /\ start <= NextOpen(m, start)
    BY NextOpenIs
  <2>2. d \in Nat /\ NextOpen(m, start) = start + d
    BY <2>1
  <2> QED BY <1>4, <2>2
<1>6. F[start] \in Nat /\ start <= F[start] /\ Open(m, F[start])
  BY <1>5, NextOpenIs
<1>7. DiskSize \in Nat /\ DiskSize > 5 /\ Max32 \in Nat
  BY Widths
<1> QED BY <1>1, <1>6, <1>7 DEF r

\* A segment on the disk that keeps off the partitions on it.
GoodSegments(m) ==
  {s \in [start : Nat, len : Nat] :
     /\ s.len > 0 /\ PastEnd(s) <= DiskSize
     /\ \A k \in 0 .. 3 : m[k].type = "data" /\ Inside(m[k]) => Off(s, m[k])}

\* The segment that the search finds from sector x on, and where it goes on.
FreeAfter(m, x) == Mbr!FindLastInFree(m, Mbr!FindFirstAvailable(m, x)) + 1
FreeAt(m, x) == [start |-> Mbr!FindFirstAvailable(m, x),
                 len |-> Mbr!FindLastInFree(m, Mbr!FindFirstAvailable(m, x)) - Mbr!FindFirstAvailable(m, x) + 1]

LEMMA FreeAtIs ==
  ASSUME NEW m, Shape(m), NEW x \in Nat
  PROVE  /\ FreeAfter(m, x) \in Nat
         /\ Mbr!FindFirstAvailable(m, x) # 0 =>
              FreeAt(m, x) \in GoodSegments(m) /\ x \in 0 .. DiskSize /\ x < FreeAfter(m, x)
<1> DEFINE first == Mbr!FindFirstAvailable(m, x)
           last == Mbr!FindLastInFree(m, first)
           s == [start |-> first, len |-> last - first + 1]
<1>1. first \in Nat /\ first < DiskSize /\ (first # 0 => x <= first /\ Open(m, first))
  BY ShapeNumbers, OpenFound
<1>2. FreeAfter(m, x) = last + 1 /\ FreeAt(m, x) = s
  BY DEF FreeAfter, FreeAt
<1> HIDE DEF first
<1>3. /\ last \in Int /\ last < DiskSize /\ first <= last
      /\ \A k \in 0 .. 3 : m[k].type = "data" /\ Inside(m[k]) /\ m[k].start > first => last < m[k].start
  BY <1>1, LastBefore
<1> HIDE DEF last
<1>4. DiskSize \in Nat
  BY Widths
<1>5. s.start = first /\ s.len = last - first + 1 /\ PastEnd(s) = last + 1
  BY <1>1, <1>3 DEF PastEnd
<1>6. ASSUME first # 0, NEW k \in 0 .. 3, m[k].type = "data", Inside(m[k]) PROVE Off(s, m[k])
  <2>1. m[k].start \in Nat /\ m[k].len \in Nat /\ PastEnd(m[k]) \in Nat
    BY ShapeNumbers DEF Numbered, PastEnd
  <2>2. ~(m[k].start <= first /\ first < PastEnd(m[k]))
    BY <1>1, <1>6 DEF Open
  <2>3. m[k].start > first => last < m[k].start
    BY <1>3, <1>6
  <2> HIDE DEF s
  <2> QED BY <1>1, <1>3, <1>5, <2>1, <2>2, <2>3 DEF Off
<1>7. s \in [start : Nat, len : Nat]
  BY <1>1, <1>3
<1>8. first # 0 => s \in GoodSegments(m)
  <2> HIDE DEF s
  <2> QED BY <1>1, <1>3, <1>4, <1>5, <1>6, <1>7 DEF GoodSegments
<1> HIDE DEF s
<1>9. last + 1 \in Nat /\ (first # 0 => x \in 0 .. DiskSize /\ x < last + 1)
  BY <1>1, <1>3, <1>4
<1> QED BY <1>2, <1>8, <1>9 DEF first

LEMMA FreeSegmentsGood ==
  ASSUME NEW m, Shape(m)
  PROVE  Mbr!FreeSegments(m) \in Seq(GoodSegments(m))
<1> DEFINE V == Seq(GoodSegments(m))
           D == {x \in Nat : Mbr!FindFirstAvailable(m, x) # 0}
           next == [x \in Nat |-> FreeAfter(m, x)]
           g == [w \in Nat \X V |-> IF w[1] \in D THEN <<FreeAt(m, w[1])>> \o w[2] ELSE <<>>]
           Is(f) == f = [start \in Nat |->
                           LET first == Mbr!FindFirstAvailable(m, start)
                               last == Mbr!FindLastInFree(m, first)
                           IN  IF first = 0 THEN <<>>
                               ELSE <<[start |-> first, len |-> last - first + 1]>> \o f[last + 1]]
           F == CHOOSE f : Is(f)
<1>1. DiskSize \in Nat
  BY Widths
<1>2. Mbr!FreeSegments(m) = F[1]
  BY DEF Mbr!FreeSegments
<1>3. Climbs(DiskSize, V, D, next, <<>>, g)
  <2>1. D \subseteq 0..DiskSize
    BY FreeAtIs
  <2>2. next \in [Nat -> Nat]
    BY FreeAtIs
  <2>3. \A x \in D : x < next[x]
    BY FreeAtIs
  <2>4. g \in [Nat \X V -> V]
    <3>1. ASSUME NEW x \in Nat, NEW v \in V PROVE (IF x \in D THEN <<FreeAt(m, x)>> \o v ELSE <<>>) \in V
      <4>1. x \in D => FreeAt(m, x) \in GoodSegments(m)
        BY FreeAtIs
      <4>2. x \in D => <<FreeAt(m, x)>> \in Seq(GoodSegments(m))
        BY <4>1
      <4> QED BY <4>2
    <3> QED BY <3>1
  <2>5. <<>> \in V
    OBVIOUS
  <2> HIDE DEF D, next, g, V
  <2> QED BY <1>1, <2>1, <2>2, <2>3, <2>4, <2>5 DEF Climbs
<1>4. ASSUME NEW f
      PROVE  Is(f) <=> f = [x \in Nat |-> IF Mbr!FindFirstAvailable(m, x) = 0 THEN <<>>
                                          ELSE <<FreeAt(m, x)>> \o f[FreeAfter(m, x)]]
  <2>1. ASSUME NEW x \in Nat
        PROVE  (LET first == Mbr!FindFirstAvailable(m, x)
                    last == Mbr!FindLastInFree(m, first)
                IN  IF first = 0 THEN <<>> ELSE <<[start |-> first, len |-> last - first + 1]>> \o f[last + 1])
               = IF Mbr!FindFirstAvailable(m, x) = 0 THEN <<>>
                 ELSE <<FreeAt(m, x)>> \o f[FreeAfter(m, x)]
    BY DEF FreeAt, FreeAfter
  <2> QED BY <2>1
<1>5. \E f : Is(f)
  <2>1. PICK f \in [Nat -> V] : ClimbsBy(f, D, next, <<>>, g)
    <3> HIDE DEF D, next, g, V
    <3> QED BY <1>3, ClimbExists
  <2>2. ASSUME NEW x \in Nat
        PROVE  (IF x \in D THEN g[<<x, f[next[x]]>>] ELSE <<>>)
               = IF Mbr!FindFirstAvailable(m, x) = 0 THEN <<>>
                 ELSE <<FreeAt(m, x)>> \o f[FreeAfter(m, x)]
    <3>1. next[x] = FreeAfter(m, x) /\ next[x] \in Nat
      BY <1>3 DEF Climbs
    <3>2. f[next[x]] \in V
      BY <3>1
    <3> HIDE DEF V, next
    <3>3. x \in D => g[<<x, f[next[x]]>>] = <<FreeAt(m, x)>> \o f[next[x]]
      BY <3>2
    <3>4. x \in D <=> Mbr!FindFirstAvailable(m, x) # 0
      OBVIOUS
    <3> HIDE DEF g, D
    <3> QED BY <3>1, <3>3, <3>4
  <2>3. f = [x \in Nat |-> IF Mbr!FindFirstAvailable(m, x) = 0 THEN <<>>
                           ELSE <<FreeAt(m, x)>> \o f[FreeAfter(m, x)]]
    <3> HIDE DEF D, next, g, V
    <3> QED BY <2>1, <2>2 DEF ClimbsBy
  <2>4. Is(f)
    <3> HIDE DEF Is
    <3> QED BY <1>4, <2>3
  <2> HIDE DEF Is
  <2> QED BY <2>4
<1>6. Is(F)
  <2> HIDE DEF Is
  <2> QED BY <1>5
<1> HIDE DEF F
<1>7. F = [x \in Nat |-> IF Mbr!FindFirstAvailable(m, x) = 0 THEN <<>>
                         ELSE <<FreeAt(m, x)>> \o F[FreeAfter(m, x)]]
  <2> HIDE DEF Is
  <2> QED BY <1>4, <1>6
<1>8. \A x \in Nat : F[x] = IF Mbr!FindFirstAvailable(m, x) = 0 THEN <<>>
                            ELSE <<FreeAt(m, x)>> \o F[FreeAfter(m, x)]
  BY <1>7
<1>9. \A x \in Nat : F[x] \in V
  <2>1. \A x \in Nat \ D : F[x] = <<>>
    BY <1>8
  <2>2. ASSUME NEW x \in D, F[next[x]] \in V PROVE F[x] = g[<<x, F[next[x]]>>]
    <3>1. x \in Nat /\ next[x] = FreeAfter(m, x)
      OBVIOUS
    <3>2. F[x] = <<FreeAt(m, x)>> \o F[FreeAfter(m, x)]
      BY <1>8
    <3> HIDE DEF next, V, D
    <3>3. g[<<x, F[next[x]]>>] = <<FreeAt(m, x)>> \o F[next[x]]
      BY <2>2, <3>1
    <3> HIDE DEF g
    <3> QED BY <3>1, <3>2, <3>3
  <2> HIDE DEF D, next, g, V
  <2> QED BY <1>3, <2>1, <2>2, ClimbType
<1>10. F[1] \in V
  BY <1>9
<1> QED BY <1>2, <1>10

NoSegment == [start |-> 0, len |-> 0]
LargerStep(list, V) == [x \in (1..Len(list)) \X V |-> IF list[x[1]].len > x[2].len THEN list[x[1]] ELSE x[2]]

LEMMA BiggestSegment ==
  ASSUME NEW m, Shape(m)
  PROVE  LET Larger(best, s) == IF s.len > best.len THEN s ELSE best
             biggest == Mbr!FoldLeft(Larger, NoSegment, Mbr!FreeSegments(m))
         IN  biggest = NoSegment \/ biggest \in GoodSegments(m)
<1> DEFINE list == Mbr!FreeSegments(m)
           N == Len(list)
           V == GoodSegments(m) \union {NoSegment}
           b == NoSegment
           op(x, s) == IF s.len > x.len THEN s ELSE x
           g == LargerStep(list, V)
           Is(f) == f = [I \in SUBSET (DOMAIN list) |->
                           IF I = {} THEN b ELSE op(f[I \ {Max(I)}], list[Max(I)])]
           F == CHOOSE f : Is(f)
           biggest == Mbr!FoldLeft(op, NoSegment, list)
<1>0. list \in Seq(GoodSegments(m))
  BY FreeSegmentsGood
<1>1. biggest = F[1..N] /\ DOMAIN list = 1..N /\ N \in Nat
  <2>1. biggest = F[DOMAIN list]
    BY DEF Mbr!FoldLeft, Mbr!MapThenFoldSet, Mbr!Max, Max
  <2>2. DOMAIN list = 1..N /\ N \in Nat
    <3> HIDE DEF list
    <3> QED BY <1>0 DEF list
  <2> HIDE DEF F
  <2> QED BY <2>1, <2>2
<1> HIDE DEF biggest
<1>2. g \in [(1..N) \X V -> V] /\ b \in V
  <2>1. ASSUME NEW i \in 1..N, NEW w \in V
        PROVE  op(w, list[i]) \in V
    <3>1. list[i] \in GoodSegments(m)
      <4> HIDE DEF list
      <4> QED BY <1>0
    <3> HIDE DEF list
    <3> QED BY <3>1
  <2>2. b \in V
    OBVIOUS
  <2> HIDE DEF list, V
  <2> QED BY <2>1, <2>2 DEF LargerStep
<1>3. ASSUME NEW I \in SUBSET (1..N), I # {}, NEW w \in V
      PROVE  g[<<Max(I), w>>] = op(w, list[Max(I)])
  <2>1. Max(I) \in 1..N
    BY <1>1, <1>3, MaxIn
  <2> HIDE DEF list, V
  <2> QED BY <2>1 DEF LargerStep
<1>4. PICK f \in [SUBSET (1..N) -> V] : FoldsBy(f, N, b, g)
  <2> HIDE DEF g, N, V, b
  <2> QED BY <1>1, <1>2, FoldExists
<1>5. Is(f)
  <2>1. ASSUME NEW I \in SUBSET (1..N), I # {}
        PROVE  g[<<Max(I), f[I \ {Max(I)}]>>] = op(f[I \ {Max(I)}], list[Max(I)])
    <3>1. f[I \ {Max(I)}] \in V
      BY <1>4
    <3> HIDE DEF g, op, V
    <3> QED BY <1>3, <2>1, <3>1
  <2> HIDE DEF g, op, N, list, V, b
  <2> QED BY <1>1, <1>4, <2>1 DEF FoldsBy
<1>6. Is(F)
  <2> HIDE DEF Is
  <2> QED BY <1>5
<1>7. Follows(F, N, b, V, g)
  <2>1. F[{}] = b
    <3> HIDE DEF F, op, N, list, b
    <3> QED BY <1>1, <1>6
  <2>2. ASSUME NEW I \in SUBSET (1..N), I # {}, F[I \ {Max(I)}] \in V
        PROVE  F[I] = g[<<Max(I), F[I \ {Max(I)}]>>]
    <3> HIDE DEF F, op, N, g, list, V, b
    <3> QED BY <1>1, <1>3, <1>6, <2>2
  <2> HIDE DEF F, op, N, g, list, V, b
  <2> QED BY <1>1, <1>2, <2>1, <2>2 DEF Follows
<1>8. PICK h : Steps(h, N, b, V, g) /\ h[N] = F[1..N]
  <2> HIDE DEF F, g, N, V, b
  <2> QED BY <1>7, FoldSteps
<1>9. h[N] \in V
  <2>1. N \in 0..N
    BY <1>1
  <2> HIDE DEF N, V, g, b, F
  <2> QED BY <1>8, <2>1 DEF Steps
<1>10. biggest \in V
  BY <1>1, <1>8, <1>9
<1> HIDE DEF F
<1> QED BY <1>10 DEF biggest

\* The entry that MakeHybrid() adds to protect the rest of the disk.
LEMMA BiggestShape ==
  ASSUME NEW m, DOMAIN m = Mbr!Slots, Shape(m), OnDisk(m)
  PROVE  LET n == Mbr!MakeBiggestPart(m, 3, "ee")
         IN  Shape(n) /\ OnDisk(n) /\ \A k \in 0 .. 2 : n[k] = m[k]
<1> DEFINE Larger(best, s) == IF s.len > best.len THEN s ELSE best
           biggest == Mbr!FoldLeft(Larger, NoSegment, Mbr!FreeSegments(m))
           e == Mbr!MkPart(biggest.start, biggest.len, "PRIMARY", "ee")
           n == Mbr!MakeBiggestPart(m, 3, "ee")
<1>1. biggest = NoSegment \/ biggest \in GoodSegments(m)
  BY BiggestSegment
<1>2. n = m \/ (biggest.len > 0 /\ n = [m EXCEPT ![3] = e])
  <2>1. n = IF biggest.len > 0 /\ biggest.len < DiskSize
            THEN Mbr!MakePart(m, 3, biggest.start, biggest.len, "ee") ELSE m
    BY DEF Mbr!MakeBiggestPart, NoSegment
  <2> HIDE DEF n, biggest
  <2> QED BY <2>1 DEF Mbr!MakePart
<1> HIDE DEF n, biggest
<1>3. CASE n = m
  BY <1>3 DEF n
<1>4. CASE biggest.len > 0 /\ n = [m EXCEPT ![3] = e]
  <2>1. biggest \in GoodSegments(m)
    BY <1>1, <1>4 DEF NoSegment
  <2>2. /\ e.start = biggest.start /\ e.len = biggest.len /\ e.type = "ee"
        /\ PastEnd(e) = PastEnd(biggest) /\ PastEnd(e) <= DiskSize
        /\ biggest.start \in Nat /\ biggest.len \in Nat /\ DiskSize \in Nat
    BY <2>1, Widths DEF GoodSegments, Mbr!MkPart, PastEnd
  <2>3. ASSUME NEW k \in 0 .. 3, m[k].type = "data", Inside(m[k]) PROVE Off(e, m[k])
    <3>1. Off(biggest, m[k])
      BY <2>1, <2>3 DEF GoodSegments
    <3> QED BY <2>2, <3>1 DEF Off
  <2>4. EntryShape(e)
    <3>1. biggest.start < DiskSize
      BY <1>4, <2>2 DEF PastEnd
    <3> QED BY <1>4, <2>2, <3>1 DEF EntryShape
  <2>5. 0 .. 3 \subseteq Mbr!Slots
    BY Widths
  <2> HIDE DEF e
  <2>6. n[3] = e /\ \A k \in 0 .. 3 : k # 3 => n[k] = m[k]
    BY <1>4, <2>5
  <2>7. Shape(n)
    BY <2>2, <2>3, <2>4, <2>6, ShapeWith
  <2>8. OnDisk(n)
    BY <2>2, <2>6 DEF OnDisk
  <2> QED BY <2>6, <2>7, <2>8 DEF n
<1> QED BY <1>2, <1>3, <1>4

\* With three partitions in front of the entry of type EE, all four are taken.
LEMMA FourTaken ==
  ASSUME NEW m, \A i \in 0 .. 3 : m[i].as = "PRIMARY"
  PROVE  ~(Mbr!CountParts(m) < 4)
<1> DEFINE S == Mbr!Included(m)
<1>1. MaxParts \in Nat /\ MaxParts > 4 /\ Mbr!Slots = 0 .. MaxParts - 1
  BY Widths
<1>2. 0 .. 3 \subseteq S /\ S \subseteq 0 .. MaxParts - 1
  BY <1>1 DEF Mbr!Included, Mbr!Including
<1> HIDE DEF S
<1>3. IsFiniteSet(0 .. MaxParts - 1) /\ Cardinality(0 .. 3) = 4
  <2>1. IsFiniteSet(0 .. MaxParts - 1)
    <3>1. 0 \in Int /\ MaxParts - 1 \in Int
      BY <1>1
    <3> QED BY <3>1, FS_Interval, Zenon
  <2>2. Cardinality(0 .. 3) = IF 0 > 3 THEN 0 ELSE 3 - 0 + 1
    <3>1. 0 \in Int /\ 3 \in Int
      OBVIOUS
    <3> QED BY <3>1, FS_Interval, Zenon
  <2> QED BY <2>1, <2>2
<1>4. IsFiniteSet(S)
  BY <1>2, <1>3, FS_Subset
<1>5. Cardinality(0 .. 3) <= Cardinality(S) /\ Cardinality(S) \in Nat
  BY <1>2, <1>4, FS_Subset, FS_CardinalityType
<1>6. Mbr!CountParts(m) = Cardinality(S)
  BY DEF Mbr!CountParts, Mbr!Cardinality, Cardinality, S
<1> QED BY <1>3, <1>5, <1>6

LEMMA PrimariesStep ==
  ASSUME NEW parts \in Partitions, NEW list, NEW x, ConvertedOK(x, parts), NEW k \in Nat,
         x.converted \in 0 .. k, x.converted = k => \A j \in 0 .. 3 : j < k => x.mbr[j].as = "PRIMARY"
  PROVE  LET z == ConvertStep(parts, list, 0, x, k + 1)
         IN  /\ z.converted \in 0 .. k + 1
             /\ z.converted = k + 1 => \A j \in 0 .. 3 : j < k + 1 => z.mbr[j].as = "PRIMARY"
<1> DEFINE p == parts[list[k + 1]]
           Sized == Mbr!UsedPart(parts, list[k + 1]) /\ Mbr!IsSizedForMBR(p) # "BAD"
           part == Mbr!AsMBR(p)
           num == (k + 1) - 1 + 0
           y == IF Sized THEN [x EXCEPT !.num = num, !.part = part, !.converted = @ + 1] ELSE x
           z == [y EXCEPT !.mbr[y.num] = y.part]
<1>1. ConvertStep(parts, list, 0, x, k + 1) = z
  BY DEF ConvertStep
<1>2. CASE Sized
  <2>1. part.as = "PRIMARY" /\ num = k
    BY DEF Mbr!AsMBR, Mbr!MkPart
  <2>2. y = [x EXCEPT !.num = num, !.part = part, !.converted = @ + 1]
    BY <1>2
  <2> HIDE DEF y, Sized, part, num
  <2>3. /\ DOMAIN y = {"mbr", "num", "part", "converted"} /\ y.mbr = x.mbr
        /\ y.num = num /\ y.part = part /\ y.converted = x.converted + 1
    BY <2>2 DEF ConvertedOK
  <2> HIDE DEF y
  <2> DEFINE m == [y.mbr EXCEPT ![y.num] = y.part]
  <2>4. z.converted = y.converted /\ z.mbr = m
    BY <2>3
  <2>5. 0 .. 3 \subseteq Mbr!Slots /\ DOMAIN x.mbr = Mbr!Slots
    BY Widths DEF ConvertedOK
  <2>6. \A j \in 0 .. 3 : m[j] = IF j = k THEN part ELSE x.mbr[j]
    BY <2>1, <2>3, <2>5
  <2> HIDE DEF m, z
  <2>7. z.converted \in 0 .. k + 1
    BY <2>3, <2>4
  <2>8. ASSUME z.converted = k + 1, NEW j \in 0 .. 3, j < k + 1 PROVE z.mbr[j].as = "PRIMARY"
    <3>1. x.converted = k
      BY <2>3, <2>4, <2>8
    <3>2. CASE j = k
      BY <2>1, <2>4, <2>6, <3>2
    <3>3. CASE j # k
      <4>1. j < k
        BY <2>8, <3>3
      <4> QED BY <2>4, <2>6, <3>1, <3>3, <4>1
    <3> QED BY <3>2, <3>3
  <2> QED BY <1>1, <2>7, <2>8 DEF z
<1>3. CASE ~Sized
  <2>1. y = x
    BY <1>3
  <2> HIDE DEF y, Sized
  <2>2. z.converted = x.converted
    BY <2>1 DEF ConvertedOK
  <2> HIDE DEF z
  <2> QED BY <1>1, <2>2
<1> QED BY <1>2, <1>3

LEMMA Primaries ==
  ASSUME NEW parts \in Partitions, NEW list \in Seq(Nat)
  PROVE  LET x == ConvertAll(parts, list, 0)
         IN  /\ x.converted \in 0 .. Len(list)
             /\ x.converted = Len(list) => \A j \in 0 .. 3 : j < Len(list) => x.mbr[j].as = "PRIMARY"
<1> DEFINE N == Len(list)
<1>1. PICK f : /\ f[0] = NoneConverted
               /\ \A k \in 1..N : f[k] = ConvertStep(parts, list, 0, f[k - 1], k)
               /\ ConvertAll(parts, list, 0) = f[N]
  BY ConvertLoop
<1>2. N \in Nat
  OBVIOUS
<1> HIDE DEF N
<1> DEFINE P(k) == /\ ConvertedOK(f[k], parts) /\ f[k].converted \in 0 .. k
                   /\ f[k].converted = k => \A j \in 0 .. 3 : j < k => f[k].mbr[j].as = "PRIMARY"
           S == {k \in 0..N : P(k)}
<1>3. 0 \in S
  <2>1. Made(Mbr!EmptyPart, parts)
    BY DEF Made
  <2>2. DOMAIN Mbr!EmptyMBR = Mbr!Slots /\ \A i \in Mbr!Slots : Mbr!EmptyMBR[i] = Mbr!EmptyPart
    BY DEF Mbr!EmptyMBR
  <2>3. ConvertedOK(NoneConverted, parts) /\ NoneConverted.converted = 0
    BY <2>1, <2>2 DEF ConvertedOK, NoneConverted
  <2> QED BY <1>1, <1>2, <2>3
<1>4. ASSUME NEW k \in 0..N - 1, k \in S PROVE k + 1 \in S
  <2>1. k + 1 \in 1..N /\ (k + 1) - 1 = k /\ k + 1 \in 0..N /\ k \in Nat
    BY <1>2
  <2>2. f[k + 1] = ConvertStep(parts, list, 0, f[k], k + 1)
    BY <1>1, <2>1
  <2>3. P(k)
    BY <1>4
  <2> DEFINE z == ConvertStep(parts, list, 0, f[k], k + 1)
  <2>4. /\ z.converted \in 0 .. k + 1
        /\ z.converted = k + 1 => \A j \in 0 .. 3 : j < k + 1 => z.mbr[j].as = "PRIMARY"
    BY <2>1, <2>3, PrimariesStep
  <2>5. ConvertedOK(z, parts)
    BY <2>3, ConvertKeeps
  <2> HIDE DEF z
  <2>6. f[k + 1] = z
    BY <2>2 DEF z
  <2>7. P(k + 1)
    BY <2>4, <2>5, <2>6
  <2> QED BY <2>1, <2>7
<1>5. N \in S
  <2>1. 0..N \subseteq S
    <3> HIDE DEF S
    <3> QED BY <1>2, <1>3, <1>4, BoundedInduction
  <2> HIDE DEF S
  <2> QED BY <1>2, <2>1
<1> QED BY <1>1, <1>5 DEF N

LEMMA HybridShape ==
  ASSUME NEW parts \in Partitions, PartsApart(parts), NEW mbr,
         Shape(mbr), OnDisk(mbr), OverMbr(mbr), MbrApart(mbr),
         NEW list \in Seq(Nat), Len(list) <= 3, NEW eeFirst \in BOOLEAN, NEW protect \in BOOLEAN
  PROVE  LET m == Mbr!MakeHybrid(mbr, parts, list, eeFirst, protect)
         IN  Shape(m) /\ OnDisk(m) /\ OverMbr(m) /\ MbrApart(m)
<1> DEFINE offset == IF eeFirst THEN 1 ELSE 0
           x == ConvertAll(parts, list, offset)
           ee == IF eeFirst THEN 0 ELSE x.converted
           e == Mbr!EE(x.mbr)
           hybrid == [x.mbr EXCEPT ![ee] = e]
           n == Mbr!MakeBiggestPart(hybrid, 3, "ee")
           m == Mbr!MakeHybrid(mbr, parts, list, eeFirst, protect)
<1>1. m = mbr \/ m = hybrid \/ (m = n /\ Mbr!CountParts(hybrid) < 4)
  BY DEF Mbr!MakeHybrid, ConvertAll, ConvertStep, NoneConverted
<1>2. ConvertedOK(x, parts)
  BY ConvertedAll
<1>3. ~eeFirst => /\ x.converted \in 0 .. Len(list)
                  /\ x.converted = Len(list) => \A j \in 0 .. 3 : j < Len(list) => x.mbr[j].as = "PRIMARY"
  BY Primaries
<1>4. Len(list) \in Nat
  OBVIOUS
<1> DEFINE L == Len(list)
<1> HIDE DEF x, m, L
<1>5. ee \in 0 .. 3 /\ (ee = 3 => \A j \in 0 .. 2 : x.mbr[j].as = "PRIMARY")
  <2>1. CASE eeFirst
    BY <2>1
  <2>2. CASE ~eeFirst
    <3>1. x.converted \in 0 .. L /\ L \in Nat /\ L <= 3
      BY <1>3, <1>4, <2>2 DEF L
    <3>2. x.converted = L => \A j \in 0 .. 3 : j < L => x.mbr[j].as = "PRIMARY"
      BY <1>3, <2>2 DEF L
    <3>3. ee = x.converted
      BY <2>2
    <3> HIDE DEF ee
    <3>4. ee \in 0 .. 3 /\ (ee = 3 => L = 3)
      BY <3>1, <3>3
    <3> QED BY <3>2, <3>3, <3>4
  <2> QED BY <2>1, <2>2
<1> HIDE DEF ee
<1>6. DOMAIN x.mbr = Mbr!Slots /\ Shape(x.mbr) /\ OnDisk(x.mbr)
  <2>1. DOMAIN x.mbr = Mbr!Slots /\ \A i \in Mbr!Slots : Made(x.mbr[i], parts)
    BY <1>2 DEF ConvertedOK
  <2> QED BY <2>1, MadeMbrShape
<1>7. Shape(hybrid) /\ OnDisk(hybrid) /\ OverHeader(hybrid[ee]) /\ hybrid[ee].type = "ee"
  BY <1>5, <1>6, ProtectedShape
<1>8. EntryOK(e) /\ e.type # "data" /\ e.as = "PRIMARY"
  BY MadeEntry DEF Mbr!EE, Mbr!MkPart
<1> HIDE DEF e
<1>9. MbrOf(hybrid, parts)
  <2>1. DOMAIN hybrid = Mbr!Slots /\ \A i \in Mbr!Slots : hybrid[i] = e \/ hybrid[i] = x.mbr[i]
    BY <1>2 DEF ConvertedOK
  <2> HIDE DEF hybrid
  <2> QED BY <1>2, <1>8, <2>1 DEF MbrOf, ConvertedOK
<1>10. ee = 3 => ~(Mbr!CountParts(hybrid) < 4)
  <2>1. SUFFICES ASSUME ee = 3 PROVE ~(Mbr!CountParts(hybrid) < 4)
    OBVIOUS
  <2>2. 0 .. 3 \subseteq Mbr!Slots
    BY Widths
  <2>3. \A i \in 0 .. 3 : hybrid[i] = IF i = 3 THEN e ELSE x.mbr[i]
    BY <1>6, <2>1, <2>2
  <2>4. \A i \in 0 .. 3 : i # 3 => i \in 0 .. 2
    OBVIOUS
  <2> HIDE DEF hybrid
  <2>5. \A i \in 0 .. 3 : hybrid[i].as = "PRIMARY"
    BY <1>5, <1>8, <2>1, <2>3, <2>4
  <2> QED BY <2>5, FourTaken
<1> HIDE DEF hybrid
<1>11. OverMbr(hybrid) /\ DOMAIN hybrid = Mbr!Slots /\ MbrApart(hybrid)
  BY <1>5, <1>7, <1>9, MadeMbrApart DEF OverMbr, MbrOf
<1>12. ASSUME Mbr!CountParts(hybrid) < 4 PROVE Shape(n) /\ OnDisk(n) /\ OverMbr(n) /\ MbrApart(n)
  <2>1. Shape(n) /\ OnDisk(n) /\ \A k \in 0 .. 2 : n[k] = hybrid[k]
    BY <1>7, <1>11, BiggestShape
  <2>2. n = hybrid \/ \E start, len, as : n = [hybrid EXCEPT ![3] = Mbr!MkPart(start, len, as, "ee")]
    BY BiggestPutsOne
  <2> HIDE DEF n
  <2>3. ee \in 0 .. 2
    BY <1>5, <1>10, <1>12
  <2>4. OverMbr(n)
    BY <1>5, <1>7, <2>1, <2>3 DEF OverMbr
  <2>5. ASSUME NEW start, NEW len, NEW as, n = [hybrid EXCEPT ![3] = Mbr!MkPart(start, len, as, "ee")]
        PROVE  MbrOf(n, parts)
    <3> DEFINE d == Mbr!MkPart(start, len, as, "ee")
    <3>1. EntryOK(d) /\ d.type # "data"
      BY MadeEntry
    <3> HIDE DEF d
    <3>2. DOMAIN n = Mbr!Slots /\ \A i \in Mbr!Slots : n[i] = d \/ n[i] = hybrid[i]
      <4>1. n = [hybrid EXCEPT ![3] = d]
        BY <2>5 DEF d
      <4> QED BY <1>9, <4>1 DEF MbrOf
    <3> QED BY <1>9, <3>1, <3>2 DEF MbrOf
  <2>6. MbrOf(n, parts)
    BY <1>9, <2>2, <2>5
  <2> QED BY <2>1, <2>4, <2>6, MadeMbrApart
<1>13. Shape(m) /\ OnDisk(m) /\ OverMbr(m) /\ MbrApart(m)
  BY <1>1, <1>7, <1>11, <1>12
<1> QED BY <1>13 DEF m

-----------------------------------------------------------------------------
(* Partitions that keep apart, and what is saved.                           *)

LEMMA KeepsOffWhenSaved ==
  ASSUME NEW m, Shape(m), NEW parts \in Partitions, Matches(m, parts), Saveable(parts)
  PROVE  KeepsOff(m)
<1>1. ASSUME NEW i \in 0 .. 3, NEW k \in 0 .. 3, m[i].type = "ee", m[k].type = "data", m[k].len > 1
      PROVE  ~Mbr!Overlap(m[i], m[k])
  <2>1. PICK p \in UsedParts(parts) : p.first <= p.last /\ Mbr!AsMBR(p) = m[k]
    BY <1>1 DEF Matches
  <2>2. Fits(p)
    BY <2>1 DEF UsedParts, Partitions, Fits
  <2>3. m[k].start = p.first /\ m[k].len = p.last - p.first + 1
    BY <2>1, <2>2, AsMBRIs DEF Mbr!LengthOf
  <2>4. p.first \in Nat /\ p.last \in Nat /\ FirstUsable <= p.first /\ p.last <= LastUsable
    BY <2>2 DEF Saveable, Fits, Partition
  <2>5. Inside(m[k])
    BY <1>1, <2>3, <2>4, Widths DEF Inside, PastEnd
  <2>6. Off(m[i], m[k])
    BY <1>1, <2>5 DEF Shape
  <2>7. m[i].start \in Nat /\ m[i].len \in Nat /\ m[i].len > 0 /\ m[k].start \in Nat /\ m[k].len \in Nat /\ m[k].len > 0
    BY <1>1 DEF Shape, EntryShape
  <2> QED BY <2>6, <2>7, OffIs
<1> QED BY <1>1 DEF KeepsOff, Entries

LEMMA ApartKept ==
  ASSUME NEW a, NEW b, Kept(a, b), MbrApart(a)
  PROVE  MbrApart(b)
BY DEF Kept, MbrApart

LEMMA NoDataApart == MbrApart(Mbr!ProtectiveMBR) /\ MbrApart(Mbr!EmptyMBR)
BY ProtectiveMbr, EmptyMbr DEF MbrApart

LEMMA ApartLess ==
  ASSUME NEW a, NEW b, UsedParts(b) \subseteq UsedParts(a), PartsApart(a)
  PROVE  PartsApart(b)
BY DEF PartsApart

LEMMA BlankApart == PartsApart(Blank)
BY BlankTable DEF PartsApart

LEMMA ApartMore ==
  ASSUME NEW a \in Partitions, NEW b, NEW part \in Partition, UsedParts(b) = UsedParts(a) \union {part},
         PartsApart(a), part.first <= part.last, \A p \in UsedParts(a) : ~Overlap(p, part)
  PROVE  PartsApart(b)
<1>1. ASSUME NEW p \in UsedParts(b), NEW q \in UsedParts(b)
      PROVE  p.first <= p.last /\ (p # q => ~Overlap(p, q))
  <2>1. p \in Partition /\ q \in Partition
    BY DEF UsedParts, Partitions
  <2>2. p.first \in Nat /\ p.last \in Nat /\ q.first \in Nat /\ q.last \in Nat
    BY <2>1 DEF Partition
  <2>3. p.first <= p.last /\ q.first <= q.last
    BY DEF PartsApart
  <2>4. p # q => ~Overlap(p, q) \/ ~Overlap(q, p)
    BY DEF PartsApart
  <2> QED BY <2>2, <2>3, <2>4 DEF Overlap
<1> QED BY <1>1 DEF PartsApart

LEMMA DeletedUsed ==
  ASSUME NEW a \in Partitions, NEW n \in 1 .. NumParts
  PROVE  UsedParts([a EXCEPT ![n] = Unused]) \subseteq UsedParts(a)
<1> DEFINE b == [a EXCEPT ![n] = Unused]
<1>1. DOMAIN a = 1 .. NumParts
  BY TableType
<1>2. DOMAIN b = 1 .. NumParts /\ \A i \in 1 .. NumParts : b[i] = IF i = n THEN Unused ELSE a[i]
  BY <1>1
<1> HIDE DEF b
<1>3. ASSUME NEW p \in UsedParts(b) PROVE p \in UsedParts(a)
  <2>1. PICK i \in 1 .. NumParts : p = b[i] /\ IsUsed(b[i])
    BY <1>2 DEF UsedParts
  <2>2. b[i] = a[i]
    BY <1>2, <2>1 DEF IsUsed
  <2> QED BY <1>1, <2>1, <2>2 DEF UsedParts
<1> QED BY <1>3 DEF b

LEMMA XFormApart ==
  ASSUME NEW m, MbrOK(m), MbrApart(m)
  PROVE  PartsApart(Mbr!XFormPartitions(m, NumParts))
<1> DEFINE x == Mbr!XFormPartitions(m, NumParts)
<1>1. \A k \in 1 .. NumParts :
        x[k] = IF k - 1 \in Mbr!Slots /\ m[k - 1].type = "data"
               THEN [first |-> m[k - 1].start, last |-> Mbr!LastLBA(m[k - 1])] ELSE [first |-> 0, last |-> 0]
  BY DEF Mbr!XFormPartitions
<1>2. DOMAIN x = 1 .. NumParts
  BY DEF Mbr!XFormPartitions
<1> HIDE DEF x
<1>3. ASSUME NEW p \in UsedParts(x)
      PROVE  \E i \in Mbr!Slots : m[i].type = "data" /\ p = [first |-> m[i].start, last |-> Mbr!LastLBA(m[i])]
  <2>1. PICK k \in 1 .. NumParts : p = x[k] /\ IsUsed(x[k])
    BY <1>2 DEF UsedParts
  <2>2. x[k] # [first |-> 0, last |-> 0]
    BY <2>1 DEF IsUsed, Unused
  <2> QED BY <1>1, <2>1, <2>2
<1>4. ASSUME NEW p \in UsedParts(x), NEW q \in UsedParts(x)
      PROVE  p.first <= p.last /\ (p # q => ~Overlap(p, q))
  <2>1. PICK i \in Mbr!Slots : m[i].type = "data" /\ p = [first |-> m[i].start, last |-> Mbr!LastLBA(m[i])]
    BY <1>3
  <2>2. PICK k \in Mbr!Slots : m[k].type = "data" /\ q = [first |-> m[k].start, last |-> Mbr!LastLBA(m[k])]
    BY <1>3
  <2>3. /\ m[i].start \in Nat /\ m[i].len \in Nat /\ m[k].start \in Nat /\ m[k].len \in Nat
    BY <2>1, <2>2 DEF MbrOK, EntryOK
  <2>4. m[i].len > 0 /\ m[k].len > 0 /\ (m[i] # m[k] => ~Mbr!Overlap(m[i], m[k]))
    BY <2>1, <2>2 DEF MbrApart
  <2>5. /\ p.first = m[i].start /\ p.last = m[i].start + m[i].len - 1
        /\ q.first = m[k].start /\ q.last = m[k].start + m[k].len - 1
    BY <2>1, <2>2, <2>4 DEF Mbr!LastLBA
  <2>6. p # q => m[i] # m[k]
    BY <2>1, <2>2
  <2>7. p # q => Off(m[i], m[k])
    BY <2>3, <2>4, <2>6, OffIs
  <2> QED BY <2>3, <2>4, <2>5, <2>7 DEF Overlap, Off, PastEnd
<1> QED BY <1>4 DEF PartsApart, x

\* What a run begins with.
LEMMA LoadedParts ==
  ASSUME DiskOK, PartsApart(disk.parts), MbrApart(disk.mbr)
  PROVE  PartsApart(LoadedMem.parts)
<1>1. \A parts, mbr, state : Loaded(parts, mbr, state).parts = parts
  BY DEF Loaded, NoMem
<1>2. \/ \E mbr, state : LoadedMem = Loaded(disk.parts, mbr, state)
      \/ \E mbr, state : LoadedMem = Loaded(Mbr!XFormPartitions(disk.mbr, NumParts), mbr, state)
      \/ \E mbr, state : LoadedMem = Loaded(Blank, mbr, state)
  BY DEF LoadedMem
<1>3. LoadedMem.parts \in {disk.parts, Mbr!XFormPartitions(disk.mbr, NumParts), Blank}
  BY <1>1, <1>2
<1> QED BY <1>3, XFormApart, BlankApart DEF DiskOK

\* -l, of a backup whose MBR has an entry of type EE.
LEMMA BackupShape ==
  ASSUME BackupOK, backup.holds = "gpt", Shape(backup.mbr), EECover(backup.mbr), MbrApart(backup.mbr),
         backup.size = DiskSize => OnDisk(backup.mbr), Mbr!StateOf(backup.mbr) # "mbr"
  PROVE  LET m == BackupMBR.mbr IN MbrApart(m) /\ Shape(m) /\ OnDisk(m) /\ OverMbr(m)
<1> DEFINE x == [mbr |-> backup.mbr, state |-> Mbr!StateOf(backup.mbr)]
           m == BackupMBR.mbr
<1>1. MbrPair(BackupMBR) /\ Kept(backup.mbr, m)
  BY BackupType
<1>2. MbrApart(m)
  BY <1>1, ApartKept
<1>3. OverMbr(backup.mbr)
  BY DEF EECover, NoEE, Mbr!StateOf
<1>4. BackupMBR = x \/ BackupMBR = Mbr!OptimizeEESize(x)
  BY DEF BackupMBR
<1>5. BackupMBR = IF backup.size = DiskSize THEN x ELSE Mbr!OptimizeEESize(x)
  BY DEF BackupMBR
<1>6. MbrPair(x) /\ x.mbr = backup.mbr
  <2>1. Mbr!StateOf(backup.mbr) = "gpt" => NoData(backup.mbr)
    BY DEF Mbr!StateOf, NoData
  <2>2. Mbr!StateOf(backup.mbr) \in States
    BY DEF Mbr!StateOf, States
  <2> QED BY <2>1, <2>2 DEF MbrPair, BackupOK
<1> HIDE DEF x
<1>7. CASE backup.size = DiskSize
  BY <1>2, <1>3, <1>5, <1>6, <1>7
<1>8. CASE backup.size # DiskSize
  <2>1. BackupMBR = Mbr!OptimizeEESize(x)
    BY <1>5, <1>8
  <2>2. Shape(m) /\ OnDisk(m) /\ Covers(backup.mbr, m)
    BY <1>6, <2>1, OptimizedShape
  <2> QED BY <1>2, <1>3, <2>2 DEF Covers
<1> QED BY <1>7, <1>8

-----------------------------------------------------------------------------
(* The invariant behind EE_KeepsOff.                                        *)

MbrOff(m) == MbrApart(m) /\ Shape(m) /\ OnDisk(m) /\ EECover(m)

DiskOff ==
  /\ PartsApart(disk.parts) /\ MbrApart(disk.mbr)
  /\ disk.gpt = "good" /\ disk.boot =>
       Shape(disk.mbr) /\ OverMbr(disk.mbr) /\ OnDisk(disk.mbr) /\ KeepsOff(disk.mbr)
BackupOff ==
  backup.holds = "gpt" =>
    /\ PartsApart(backup.parts) /\ MbrApart(backup.mbr) /\ Shape(backup.mbr) /\ EECover(backup.mbr)
    /\ backup.size = DiskSize => OnDisk(backup.mbr)
\* After -m there is no entry of type EE in memory, and nothing more is saved.
MemOff ==
  PartsApart(mem.parts) /\ MbrOff(mem.mbr) /\ (OverMbr(mem.mbr) \/ flags.pretend)

OffInv == auxStale = {} => DiskOff /\ BackupOff /\ (pc # "idle" => MemOff)

LEMMA OverOff ==
  ASSUME NEW m, MbrApart(m), Shape(m), OnDisk(m), OverMbr(m)
  PROVE  MbrOff(m)
BY DEF MbrOff, EECover

LEMMA PretendStays ==
  ASSUME TypeInv, TakeOption
  PROVE  flags.pretend => flags'.pretend
<1>1. flags \in Flags
  BY DEF TypeInv, AskedInv
<1>2. Fails \/ WillSave \/ flags' = flags => (flags.pretend => flags'.pretend)
  BY <1>1 DEF Fails, WillSave, Flags
<1>3. CASE OptNew \/ OptLargest
  <2>1. \E n, start, end : CreatePartition(n, start, end)
    BY <1>3 DEF OptNew, OptLargest
  <2> QED BY <1>2, <2>1 DEF CreatePartition
<1>4. CASE OptDelete \/ OptTranspose \/ OptEdit \/ OptTouch \/ OptClear
  <2>1. Fails \/ WillSave
    BY <1>4 DEF OptDelete, OptTranspose, OptEdit, OptTouch, OptClear
  <2> QED BY <1>2, <2>1
<1>5. CASE OptAlignment \/ OptHybrid \/ OptBackup \/ OptReplicate
  <2>1. WillSave \/ flags' = flags
    BY <1>5 DEF OptAlignment, OptHybrid, OptBackup, OptReplicate
  <2> QED BY <1>2, <2>1
<1>6. CASE OptAttributes
  BY <1>1, <1>6 DEF OptAttributes, Flags
<1>7. CASE OptMbrToGpt
  BY <1>1, <1>7 DEF OptMbrToGpt, Flags
<1>8. CASE OptGptToMbr
  <2>1. flags' = [flags EXCEPT !.saveNonGPT = FALSE, !.pretend = TRUE, !.saveData = FALSE] \/ flags' = flags
    BY <1>8 DEF OptGptToMbr
  <2> QED BY <1>1, <2>1 DEF Flags
<1>9. CASE OptLoadBackup
  <2>1. \E a, b : flags' = [flags EXCEPT !.saveData = a, !.neverSaveData = b]
    BY <1>9 DEF OptLoadBackup, LoadBackupFile
  <2> QED BY <1>1, <2>1 DEF Flags
<1>10. CASE OptZap
  BY <1>1, <1>10 DEF OptZap, Flags
<1> QED BY <1>3, <1>4, <1>5, <1>6, <1>7, <1>8, <1>9, <1>10 DEF TakeOption

\* The MBR in memory stays, and no partition is added.
LEMMA MemOffStays ==
  ASSUME TypeInv, TakeOption, MemOff,
         UsedParts(mem'.parts) \subseteq UsedParts(mem.parts), mem'.mbr = mem.mbr
  PROVE  MemOff'
<1>1. flags.pretend => flags'.pretend
  BY PretendStays
<1>2. PartsApart(mem'.parts)
  BY ApartLess DEF MemOff
<1> QED BY <1>1, <1>2 DEF MemOff

LEMMA CreateOff ==
  ASSUME TypeInv, TakeOption, MemOff, auxStale' = {}, NEW n, NEW start, NEW part, Creates(n, start, part)
  PROVE  MemOff'
<1>1. flags.pretend => flags'.pretend
  BY PretendStays
<1>2. UsedParts(mem'.parts) = UsedParts(mem.parts) \union {part} /\ mem'.mbr = mem.mbr
  BY CreateAdds DEF TypeInv
<1>3. part \in Partition /\ part.first <= part.last /\ \A p \in UsedParts(mem.parts) : ~Overlap(p, part)
  BY DEF Creates
<1>4. mem.parts \in Partitions
  BY DEF TypeInv, MemOK
<1>5. PartsApart(mem'.parts)
  BY <1>2, <1>3, <1>4, ApartMore DEF MemOff
<1> QED BY <1>1, <1>2, <1>5 DEF MemOff

LEMMA DeleteOff ==
  ASSUME TypeInv, TakeOption, MemOff, NEW n, n \in Int, MayDelete(n), mem' = DeletedIn(mem, n)
  PROVE  MemOff'
<1> DEFINE x == [mbr |-> mem.mbr, state |-> mem.state]
           y == Mbr!DeleteByLocation(x, mem.parts[n])
<1>1. flags.pretend => flags'.pretend
  BY PretendStays
<1>2. n \in 1 .. NumParts /\ mem'.parts = [mem.parts EXCEPT ![n] = Unused] /\ Kept(mem.mbr, mem'.mbr)
  BY DeletedType DEF TypeInv
<1>3. MbrPair(x) /\ x.mbr = mem.mbr
  BY DEF TypeInv, MemOK, MbrPair
<1>4. mem' = [mem EXCEPT !.parts[n] = Unused, !.mbr = y.mbr, !.state = y.state]
  BY DEF DeletedIn
<1> HIDE DEF x, y
<1>5. mem'.mbr = y.mbr
  BY <1>4 DEF TypeInv, MemOK
<1>6. Shape(y.mbr) /\ OnDisk(y.mbr) /\ Covers(mem.mbr, y.mbr)
  BY <1>3, DeletedShape DEF MemOff, MbrOff, y
<1>7. MbrApart(mem'.mbr)
  BY <1>2, ApartKept DEF MemOff, MbrOff
<1>8. PartsApart(mem'.parts)
  BY <1>2, DeletedUsed, ApartLess DEF MemOff, TypeInv, MemOK
<1> QED BY <1>1, <1>5, <1>6, <1>7, <1>8 DEF MemOff, MbrOff, Covers

\* -h and -m
LEMMA BuildOff ==
  ASSUME TypeInv, TakeOption, MemOff, OptHybrid \/ OptGptToMbr
  PROVE  MemOff'
<1>1. flags.pretend => flags'.pretend
  BY PretendStays
<1>2. ASSUME NEW list \in Lists, NEW hybrid \in BOOLEAN, NEW eeLast \in BOOLEAN,
             Mbr!BuildMBR(mem.parts, list, hybrid, eeLast).ok, hybrid \/ flags'.pretend,
             mem' = [mem EXCEPT !.mbr = Mbr!BuildMBR(mem.parts, list, hybrid, eeLast).mbr, !.state = "mbr"]
      PROVE  MemOff'
  <2> DEFINE m == Mbr!BuildMBR(mem.parts, list, hybrid, eeLast).mbr
  <2>1. mem.parts \in Partitions /\ PartsApart(mem.parts) /\ list \in Seq(Nat)
    BY OptionsAssumption DEF TypeInv, MemOK, MemOff
  <2>2. MbrOK(m)
    BY <1>2, <2>1, BuiltMbr
  <2>3. MbrApart(m) /\ Shape(m) /\ OnDisk(m) /\ EECover(m) /\ (hybrid => OverMbr(m))
    BY <1>2, <2>1, BuiltShape
  <2> HIDE DEF m
  <2>4. mem' = [mem EXCEPT !.mbr = m, !.state = "mbr"]
    BY <1>2 DEF m
  <2>5. mem'.parts = mem.parts /\ mem'.mbr = m
    BY <2>2, <2>4, NewMbrType DEF TypeInv
  <2> QED BY <1>2, <2>1, <2>3, <2>5 DEF MemOff, MbrOff
<1>3. mem' = mem => MemOff'
  BY MemOffStays
<1>4. CASE OptHybrid
  <2>1. \/ mem' = mem
        \/ \E list \in Lists, eeLast \in BOOLEAN :
             /\ Mbr!BuildMBR(mem.parts, list, TRUE, eeLast).ok
             /\ mem' = [mem EXCEPT !.mbr = Mbr!BuildMBR(mem.parts, list, TRUE, eeLast).mbr, !.state = "mbr"]
    BY <1>4 DEF OptHybrid
  <2> QED BY <1>2, <1>3, <2>1
<1>5. CASE OptGptToMbr
  <2>1. \/ mem' = mem
        \/ \E list \in Lists :
             /\ Mbr!BuildMBR(mem.parts, list, FALSE, FALSE).ok
             /\ mem' = [mem EXCEPT !.mbr = Mbr!BuildMBR(mem.parts, list, FALSE, FALSE).mbr, !.state = "mbr"]
             /\ flags' = [flags EXCEPT !.saveNonGPT = FALSE, !.pretend = TRUE, !.saveData = FALSE]
    BY <1>5 DEF OptGptToMbr
  <2>2. flags' = [flags EXCEPT !.saveNonGPT = FALSE, !.pretend = TRUE, !.saveData = FALSE] => flags'.pretend
    BY DEF TypeInv, AskedInv, Flags
  <2> QED BY <1>2, <1>3, <2>1, <2>2
<1> QED BY <1>4, <1>5

LEMMA LoadOff ==
  ASSUME TypeInv, TakeOption, MemOff, BackupOff, OptLoadBackup, auxStale' = {}
  PROVE  MemOff'
<1>1. mem' = BackupMem
  BY DEF OptLoadBackup
<1>2. CASE backup.holds = "gpt"
  <2> DEFINE x == BackupMBR
  <2>1. mem' = [mem EXCEPT !.parts = backup.parts, !.mbr = x.mbr, !.state = x.state]
    BY <1>1, <1>2 DEF BackupMem
  <2>2. Mbr!StateOf(backup.mbr) # "mbr"
    BY <1>2 DEF OptLoadBackup
  <2>3. MbrApart(x.mbr) /\ Shape(x.mbr) /\ OnDisk(x.mbr) /\ OverMbr(x.mbr)
    BY <1>2, <2>2, BackupShape DEF TypeInv, BackupOff
  <2> HIDE DEF x
  <2>4. mem'.parts = backup.parts /\ mem'.mbr = x.mbr
    BY <2>1 DEF TypeInv, MemOK
  <2> QED BY <1>2, <2>3, <2>4, OverOff DEF MemOff, BackupOff
<1>3. CASE backup.holds = "junk"
  <2>1. mem' = [NoMem EXCEPT !.alignEnd = mem.alignEnd]
    BY <1>1, <1>3 DEF BackupMem
  <2>2. mem'.mbr = Mbr!ProtectiveMBR /\ mem'.parts = Blank
    BY <2>1, NoMemType DEF NoMem
  <2> QED BY <2>2, ProtectiveShape, NoDataApart, BlankApart, OverOff DEF MemOff
<1>4. CASE backup.holds \notin {"gpt", "junk"}
  <2>1. mem' = mem
    BY <1>1, <1>4 DEF BackupMem
  <2> QED BY <2>1, MemOffStays
<1> QED BY <1>2, <1>3, <1>4

LEMMA OptionMemOff ==
  ASSUME TypeInv, MemOff, BackupOff, TakeOption, auxStale' = {}
  PROVE  MemOff'
<1>1. mem' = mem => MemOff'
  BY MemOffStays
<1>2. Fails => mem' = mem
  BY DEF Fails
<1>3. CASE OptNew \/ OptLargest
  BY <1>1, <1>2, <1>3, CreateOff, NewCreates DEF TypeInv
<1>4. CASE OptDelete
  <2>1. PICK n \in Numbers : IF MayDelete(n) THEN mem' = DeletedIn(mem, n) ELSE Fails
    BY <1>4 DEF OptDelete
  <2>2. n \in Int
    BY OptionsAssumption DEF Numbers
  <2> QED BY <1>1, <1>2, <2>1, <2>2, DeleteOff
<1>5. CASE OptTranspose
  <2>1. PICK n \in Numbers, k \in Numbers :
          \/ /\ {n, k} \subseteq DOMAIN mem.parts
             /\ mem' = [mem EXCEPT !.parts[n] = mem.parts[k], !.parts[k] = mem.parts[n]]
          \/ Fails
    BY <1>5 DEF OptTranspose
  <2>2. CASE ~Fails
    <3>1. /\ {n, k} \subseteq DOMAIN mem.parts
          /\ mem' = [mem EXCEPT !.parts[n] = mem.parts[k], !.parts[k] = mem.parts[n]]
      BY <2>1, <2>2
    <3>2. MemOK
      BY DEF TypeInv
    <3>3. UsedParts(mem'.parts) = UsedParts(mem.parts) /\ mem'.mbr = mem.mbr
      BY ONLY <3>1, <3>2, TransposedType
    <3> QED BY <3>3, MemOffStays
  <2> QED BY <1>1, <1>2, <2>2
<1>6. CASE OptEdit \/ OptTouch \/ OptReplicate \/ OptAttributes \/ OptMbrToGpt \/ OptBackup \/ OptZap
  <2>1. Fails \/ mem' = mem
    BY <1>6 DEF OptEdit, OptTouch, OptReplicate, OptAttributes, OptMbrToGpt, OptBackup, OptZap
  <2> QED BY <1>1, <1>2, <2>1
<1>7. CASE OptAlignment
  <2>1. mem'.parts = mem.parts /\ mem'.mbr = mem.mbr
    BY <1>7 DEF OptAlignment, TypeInv, MemOK
  <2> QED BY <2>1, MemOffStays
<1>8. CASE OptHybrid \/ OptGptToMbr
  BY <1>8, BuildOff
<1>9. CASE OptClear
  <2>1. mem'.parts = Blank /\ mem'.mbr = mem.mbr
    BY <1>9 DEF OptClear, TypeInv, MemOK
  <2>2. UsedParts(mem'.parts) \subseteq UsedParts(mem.parts)
    BY <2>1, BlankTable
  <2> QED BY <2>1, <2>2, MemOffStays
<1>10. CASE OptLoadBackup
  BY <1>10, LoadOff
<1> QED BY <1>3, <1>4, <1>5, <1>6, <1>7, <1>8, <1>9, <1>10 DEF TakeOption

LEMMA OptionDiskOff ==
  ASSUME TypeInv, DiskOff, MemOff, TakeOption
  PROVE  DiskOff'
<1>1. disk' = disk => DiskOff'
  BY DEF DiskOff
<1>2. Blank \in Partitions /\ PartsApart(Blank)
  BY BlankTable, BlankApart
<1>3. ASSUME disk'.parts = Blank, MbrApart(disk'.mbr), disk'.gpt = "none" PROVE DiskOff'
  BY <1>2, <1>3 DEF DiskOff
<1>4. CASE OptGptToMbr
  <2>1. \/ disk' = disk
        \/ \E list \in Lists :
             /\ Mbr!BuildMBR(mem.parts, list, FALSE, FALSE).ok
             /\ disk' = [gpt |-> "none", parts |-> Blank, boot |-> TRUE,
                         mbr |-> Mbr!BuildMBR(mem.parts, list, FALSE, FALSE).mbr]
    BY <1>4 DEF OptGptToMbr
  <2>2. ASSUME NEW list \in Lists, Mbr!BuildMBR(mem.parts, list, FALSE, FALSE).ok
        PROVE  MbrApart(Mbr!BuildMBR(mem.parts, list, FALSE, FALSE).mbr)
    <3>1. mem.parts \in Partitions /\ PartsApart(mem.parts) /\ list \in Seq(Nat)
      BY OptionsAssumption DEF TypeInv, MemOK, MemOff
    <3> DEFINE hybrid == FALSE
               m == Mbr!BuildMBR(mem.parts, list, hybrid, hybrid).mbr
    <3>2. hybrid \in BOOLEAN /\ Mbr!BuildMBR(mem.parts, list, hybrid, hybrid).ok
      BY <2>2
    <3> HIDE DEF hybrid
    <3>3. MbrApart(m)
      BY <3>1, <3>2, BuiltShape
    <3> HIDE DEF m
    <3> QED BY <3>3 DEF m, hybrid
  <2>3. disk' = disk \/ \E m : MbrApart(m) /\ disk' = [gpt |-> "none", parts |-> Blank, boot |-> TRUE, mbr |-> m]
    BY <2>1, <2>2, Zenon
  <2>4. disk' = disk \/ (disk'.parts = Blank /\ MbrApart(disk'.mbr) /\ disk'.gpt = "none")
    BY <2>3
  <2> QED BY <1>1, <1>3, <2>4
<1>5. CASE OptZap
  <2>1. \/ disk' = disk
        \/ disk' = [gpt |-> "none", parts |-> Blank, boot |-> FALSE, mbr |-> Mbr!EmptyMBR]
        \/ disk' = [disk EXCEPT !.gpt = "none", !.parts = Blank]
    BY <1>5 DEF OptZap
  <2>2. CASE disk' = [gpt |-> "none", parts |-> Blank, boot |-> FALSE, mbr |-> Mbr!EmptyMBR]
    <3>1. disk'.parts = Blank /\ disk'.mbr = Mbr!EmptyMBR /\ disk'.gpt = "none"
      BY <2>2
    <3> QED BY <1>3, <3>1, NoDataApart
  <2>3. CASE disk' = [disk EXCEPT !.gpt = "none", !.parts = Blank]
    <3>1. disk'.parts = Blank /\ disk'.mbr = disk.mbr /\ disk'.gpt = "none"
      BY <2>3 DEF TypeInv, DiskOK
    <3> QED BY <1>3, <3>1 DEF DiskOff
  <2> QED BY <1>1, <2>1, <2>2, <2>3
<1>6. CASE OptNew \/ OptLargest
  <2>1. disk' = disk
    BY <1>6, NewCreates DEF TypeInv, Creates, Fails
  <2> QED BY <1>1, <2>1
<1>7. CASE OptDelete \/ OptTranspose \/ OptEdit \/ OptTouch \/ OptAlignment \/ OptMbrToGpt \/ OptHybrid
           \/ OptClear \/ OptBackup \/ OptLoadBackup \/ OptReplicate \/ OptAttributes
  <2>1. disk' = disk
    BY <1>7 DEF OptDelete, OptTranspose, OptEdit, OptTouch, OptAlignment, OptMbrToGpt, OptHybrid,
                OptClear, OptBackup, OptLoadBackup, OptReplicate, OptAttributes, Fails
  <2> QED BY <1>1, <2>1
<1> QED BY <1>4, <1>5, <1>6, <1>7 DEF TakeOption

LEMMA OptionBackupOff ==
  ASSUME TypeInv, BackupOff, MemOff, TakeOption
  PROVE  BackupOff'
<1>1. backup' = backup => BackupOff'
  BY DEF BackupOff
<1>2. CASE OptBackup
  <2>1. backup' = [holds |-> "gpt", size |-> DiskSize, parts |-> mem.parts, mbr |-> mem.mbr]
    BY <1>2 DEF OptBackup
  <2>2. backup'.parts = mem.parts /\ backup'.mbr = mem.mbr
    BY <2>1
  <2> QED BY <2>2 DEF BackupOff, MemOff, MbrOff
<1>3. CASE OptNew \/ OptLargest
  <2>1. backup' = backup
    BY <1>3, NewCreates DEF TypeInv, Creates, Fails
  <2> QED BY <1>1, <2>1
<1>4. CASE OptDelete \/ OptTranspose \/ OptEdit \/ OptTouch \/ OptAlignment \/ OptMbrToGpt \/ OptHybrid
           \/ OptGptToMbr \/ OptZap \/ OptClear \/ OptLoadBackup \/ OptReplicate \/ OptAttributes
  <2>1. backup' = backup
    BY <1>4 DEF OptDelete, OptTranspose, OptEdit, OptTouch, OptAlignment, OptMbrToGpt, OptHybrid,
                OptGptToMbr, OptZap, OptClear, OptLoadBackup, OptReplicate, OptAttributes, Fails
  <2> QED BY <1>1, <2>1
<1> QED BY <1>2, <1>3, <1>4 DEF TakeOption

\* The MBR that a run loads is that of the disk, or a protective one.
LEMMA LoadedOff ==
  ASSUME DiskOK, DiskOff
  PROVE  PartsApart(LoadedMem.parts) /\ MbrOff(LoadedMem.mbr) /\ OverMbr(LoadedMem.mbr)
<1>1. PartsApart(LoadedMem.parts)
  BY LoadedParts DEF DiskOff
<1>2. \/ LoadedMem.mbr = disk.mbr /\ disk.gpt = "good" /\ disk.boot
      \/ LoadedMem.mbr = Mbr!ProtectiveMBR
  <2>1. \A parts, mbr, state : Loaded(parts, mbr, state).mbr = mbr
    BY DEF Loaded, NoMem
  <2>2. \/ \E parts, state : LoadedMem = Loaded(parts, Mbr!ProtectiveMBR, state)
        \/ /\ \E parts, state : LoadedMem = Loaded(parts, disk.mbr, state)
           /\ disk.gpt = "good" /\ disk.boot
    <3>1. WhichWasUsed \in {"gpt", "abort"} => disk.gpt = "good"
      BY DEF WhichWasUsed
    <3>2. WhichWasUsed = "abort" => disk.boot
      BY DEF WhichWasUsed, MbrState
    <3>3. MbrState # "invalid" => disk.boot
      BY DEF MbrState
    <3>4. WhichWasUsed \in {"gpt", "mbr", "new", "abort"}
      BY DEF WhichWasUsed
    <3> QED BY <3>1, <3>2, <3>3, <3>4 DEF LoadedMem
  <2> QED BY <2>1, <2>2
<1> QED BY <1>1, <1>2, ProtectiveShape, NoDataApart, OverOff DEF DiskOff

LEMMA GdiskOff ==
  ASSUME TypeInv, MatchesInv, DiskOff, auxStale = {}, GdiskHybrid
  PROVE  DiskOff'
<1>1. PICK list \in Lists, eeFirst \in BOOLEAN, protect \in BOOLEAN :
        /\ Len(list) <= 3
        /\ disk' = [disk EXCEPT !.boot = TRUE,
                      !.mbr = Mbr!MakeHybrid(LoadedMem.mbr, disk.parts, list, eeFirst, protect)]
  BY DEF GdiskHybrid
<1> DEFINE m == Mbr!MakeHybrid(LoadedMem.mbr, disk.parts, list, eeFirst, protect)
<1>2. /\ disk.parts \in Partitions /\ PartsApart(disk.parts) /\ Saveable(disk.parts) /\ disk.gpt = "good"
      /\ list \in Seq(Nat) /\ DiskOK
  BY OptionsAssumption DEF TypeInv, DiskOK, DiskOff, GdiskHybrid
<1>3. Shape(m) /\ OnDisk(m) /\ OverMbr(m) /\ MbrApart(m)
  BY <1>1, <1>2, LoadedOff, HybridShape DEF MbrOff
<1> HIDE DEF m
<1>4. disk' = [disk EXCEPT !.boot = TRUE, !.mbr = m]
  BY <1>1 DEF m
<1>5. disk'.parts = disk.parts /\ disk'.mbr = m
  BY <1>2, <1>4 DEF DiskOK
<1>6. Matches(disk'.mbr, disk'.parts)
  BY <1>2, HybridOnDisk DEF MatchesInv
<1>7. KeepsOff(m)
  BY <1>2, <1>3, <1>5, <1>6, KeepsOffWhenSaved
<1> QED BY <1>2, <1>3, <1>5, <1>7 DEF DiskOff

LEMMA SaveOff ==
  ASSUME TypeInv, MatchesInv, MemOff, auxStale = {}, Save
  PROVE  DiskOff'
<1>1. /\ MaySave /\ pc = "save"
      /\ disk' = [gpt |-> "good", parts |-> mem.parts, boot |-> TRUE, mbr |-> mem.mbr]
  BY DEF Save
<1>2. disk'.parts = mem.parts /\ disk'.mbr = mem.mbr
  BY <1>1
<1>3. ~flags.pretend
  BY <1>1 DEF TypeInv, AskedInv, Saves
<1>4. KeepsOff(mem.mbr)
  BY <1>1, KeepsOffWhenSaved DEF MatchesInv, MaySave, MemOff, MbrOff, TypeInv, MemOK
<1> QED BY <1>2, <1>3, <1>4 DEF DiskOff, MemOff, MbrOff

LEMMA OffInductive ==
  ASSUME TypeInv, MatchesInv, OffInv, [Next]_vars
  PROVE  OffInv'
<1> SUFFICES ASSUME auxStale' = {}
             PROVE  DiskOff' /\ BackupOff' /\ (pc' # "idle" => MemOff')
  BY DEF OffInv
<1>1. /\ disk' = disk => (DiskOff => DiskOff')
      /\ backup' = backup => (BackupOff => BackupOff')
      /\ mem' = mem /\ flags' = flags => (MemOff => MemOff')
  BY DEF DiskOff, BackupOff, MemOff
<1>2. CASE Start
  <2>1. mem' = LoadedMem /\ UNCHANGED <<disk, backup, auxStale>>
    BY <1>2 DEF Start
  <2>2. DiskOff /\ BackupOff
    BY <2>1 DEF OffInv
  <2>3. MemOff'
    BY <2>1, <2>2, LoadedOff DEF MemOff, TypeInv
  <2> QED BY <1>1, <2>1, <2>2, <2>3
<1>3. CASE UnknownWipeMode \/ Exit
  <2>1. mem' = NoMem /\ UNCHANGED <<disk, backup, auxStale>>
    BY <1>3 DEF UnknownWipeMode, Exit
  <2>2. mem'.mbr = Mbr!ProtectiveMBR /\ mem'.parts = Blank
    BY <2>1, NoMemType
  <2>3. MemOff'
    BY <2>2, ProtectiveShape, NoDataApart, BlankApart, OverOff DEF MemOff
  <2> QED BY <1>1, <2>1, <2>3 DEF OffInv
<1>4. CASE TakeOption
  <2>1. pc # "idle"
    BY <1>4 DEF TakeOption, OptNew, OptLargest, OptDelete, OptTranspose, OptEdit, OptTouch, OptAlignment,
                OptMbrToGpt, OptHybrid, OptGptToMbr, OptClear, OptBackup, OptLoadBackup, OptZap,
                OptReplicate, OptAttributes, Option, OptionWith, AnyOption
  <2>2. auxStale = {}
    BY <1>4, StaleGrows
  <2>3. DiskOff /\ BackupOff /\ MemOff
    BY <2>1, <2>2 DEF OffInv
  <2> QED BY <1>4, <2>3, OptionDiskOff, OptionBackupOff, OptionMemOff
<1>5. CASE EndOptions \/ Wipe
  <2>1. UNCHANGED <<disk, backup, mem, flags, auxStale>> /\ pc # "idle"
    BY <1>5 DEF EndOptions, Wipe
  <2> QED BY <1>1, <2>1 DEF OffInv
<1>6. CASE Save
  <2>1. UNCHANGED <<backup, mem, flags, auxStale>> /\ pc # "idle"
    BY <1>6 DEF Save
  <2> QED BY <1>1, <1>6, <2>1, SaveOff DEF OffInv
<1>7. CASE SaveFails
  <2>1. UNCHANGED <<backup, mem, flags, auxStale>> /\ pc # "idle"
        /\ (disk' = disk \/ disk' = [disk EXCEPT !.gpt = "torn"])
    BY <1>7 DEF SaveFails
  <2>2. disk' = disk \/ (disk'.gpt = "torn" /\ disk'.parts = disk.parts /\ disk'.mbr = disk.mbr)
    BY <2>1 DEF TypeInv, DiskOK
  <2>3. DiskOff => DiskOff'
    BY <2>2 DEF DiskOff
  <2> QED BY <1>1, <2>1, <2>3 DEF OffInv
<1>8. CASE GdiskHybrid
  <2>1. UNCHANGED <<backup, mem, flags, auxStale, pc>>
    BY <1>8 DEF GdiskHybrid
  <2> QED BY <1>1, <1>8, <2>1, GdiskOff DEF OffInv
<1>9. CASE UNCHANGED vars
  <2>1. UNCHANGED <<disk, backup, mem, flags, auxStale, pc>>
    BY <1>9 DEF vars
  <2> QED BY <1>1, <2>1 DEF OffInv
<1> QED BY <1>2, <1>3, <1>4, <1>5, <1>6, <1>7, <1>8, <1>9 DEF Next

\* An MBR whose first four entries are plain, with its partitions apart.
LEMMA PlainShape ==
  ASSUME NEW m, MbrOK(m), \A i \in 0 .. 3 : m[i].start \in Nat /\ m[i].len \in Nat, Plain(m), MbrApart(m), KeepsOff(m)
  PROVE  Shape(m)
<1>1. ASSUME NEW i \in 0 .. 3 PROVE EntryShape(m[i])
  <2>1. i \in Mbr!Slots
    BY Widths
  <2> QED BY <2>1 DEF Plain, MbrApart, EntryShape
<1>2. ASSUME NEW i \in 0 .. 3, NEW k \in 0 .. 3, m[k].type = "data"
      PROVE  /\ m[i].type = "data" /\ m[i] # m[k] => Off(m[i], m[k])
             /\ m[i].type = "ee" /\ Inside(m[k]) => Off(m[i], m[k])
  <2>1. i \in Mbr!Slots /\ k \in Mbr!Slots
    BY Widths
  <2>2. m[i].start \in Nat /\ m[i].len \in Nat /\ m[k].start \in Nat /\ m[k].len \in Nat /\ m[k].len > 0
    BY <1>2, <2>1 DEF MbrApart
  <2>3. m[i].type = "data" /\ m[i] # m[k] => Off(m[i], m[k])
    BY <1>2, <2>1, <2>2, OffIs DEF MbrApart
  <2>4. ASSUME m[i].type = "ee", Inside(m[k]) PROVE Off(m[i], m[k])
    <3>1. m[i].len > 0
      BY <1>1, <2>4 DEF EntryShape
    <3>2. ~Mbr!Overlap(m[i], m[k])
      BY <1>2, <2>4 DEF KeepsOff, Entries, Inside
    <3> QED BY <2>2, <3>1, <3>2, OffIs
  <2> QED BY <2>3, <2>4
<1> QED BY <1>1, <1>2 DEF Shape

LEMMA OffInit ==
  ASSUME SoundDisks, Init
  PROVE  OffInv
<1> SUFFICES ASSUME auxStale = {} PROVE DiskOff /\ BackupOff
  BY DEF OffInv, Init
<1>1. pc = "idle" /\ disk \in Disks /\ backup \in BackupFiles /\ ~(disk.gpt = "good" /\ MbrState = "mbr")
  BY DEF Init
<1>2. ASSUME NEW m \in [Mbr!Slots -> MbrEntry], NEW i \in 0 .. 3 PROVE m[i].start \in Nat /\ m[i].len \in Nat
  <2>1. m[i] \in MbrEntry
    BY Widths
  <2> QED BY <2>1, Widths DEF MbrEntry
<1>3. DiskOff
  <2>1. /\ PartsApart(disk.parts) /\ MbrApart(disk.mbr)
        /\ disk.gpt = "good" /\ disk.boot /\ Mbr!StateOf(disk.mbr) # "mbr" =>
             Plain(disk.mbr) /\ HasEE(disk.mbr) /\ EndsOnDisk(disk.mbr) /\ KeepsOff(disk.mbr)
    BY <1>1 DEF SoundDisks
  <2>2. disk.mbr \in [Mbr!Slots -> MbrEntry] /\ MbrOK(disk.mbr)
    BY <1>1, DisksAssumption, MbrFits DEF TablesAssumption
  <2>3. ASSUME disk.gpt = "good", disk.boot
        PROVE  Shape(disk.mbr) /\ OverMbr(disk.mbr) /\ OnDisk(disk.mbr) /\ KeepsOff(disk.mbr)
    <3>1. Mbr!StateOf(disk.mbr) # "mbr"
      BY <1>1, <2>3 DEF MbrState
    <3>2. Shape(disk.mbr)
      BY <1>2, <2>1, <2>2, <2>3, <3>1, PlainShape
    <3> QED BY <2>1, <2>3, <3>1, <3>2, ShapeMeans
  <2> QED BY <2>1, <2>3 DEF DiskOff
<1>4. BackupOff
  <2> SUFFICES ASSUME backup.holds = "gpt"
               PROVE  /\ PartsApart(backup.parts) /\ MbrApart(backup.mbr) /\ Shape(backup.mbr) /\ EECover(backup.mbr)
                      /\ backup.size = DiskSize => OnDisk(backup.mbr)
    BY DEF BackupOff
  <2>1. /\ PartsApart(backup.parts) /\ MbrApart(backup.mbr) /\ Plain(backup.mbr)
        /\ Mbr!StateOf(backup.mbr) # "mbr" => HasEE(backup.mbr) /\ KeepsOff(backup.mbr)
        /\ backup.size = DiskSize => EndsOnDisk(backup.mbr)
    BY <1>1 DEF SoundDisks
  <2>2. backup.mbr \in [Mbr!Slots -> MbrEntry] /\ MbrOK(backup.mbr)
    BY <1>1, DisksAssumption, MbrFits DEF TablesAssumption
  <2>3. Mbr!StateOf(backup.mbr) = "mbr" => NoEE(backup.mbr)
    BY DEF Mbr!StateOf, NoEE
  <2>4. KeepsOff(backup.mbr)
    BY <2>1, <2>3 DEF KeepsOff, Entries, NoEE
  <2>5. Shape(backup.mbr)
    BY <1>2, <2>1, <2>2, <2>4, PlainShape
  <2> QED BY <2>1, <2>3, <2>5, ShapeMeans DEF EECover
<1> QED BY <1>3, <1>4

\* An MBR beside a GPT on the disk has an entry of type EE over sector 1; those
\* entries end on the disk and keep off every other entry of more than one sector.
THEOREM EEKeepsOff ==
  ASSUME SoundDisks
  PROVE  Spec => []EE_KeepsOff
<1>1. Init => OffInv
  BY OffInit
<1>2. TypeInv /\ MatchesInv /\ OffInv /\ [Next]_vars => OffInv'
  BY OffInductive
<1>3. OffInv => EE_KeepsOff
  BY ShapeMeans DEF OffInv, DiskOff, EE_KeepsOff
<1> QED BY <1>1, <1>2, <1>3, TypeHolds, MatchesHolds, PTL DEF Spec

\* While no partition in memory has one sector only, lies outside of the usable
\* sectors or overlaps another, -n and -N make none that overlaps one.
THEOREM NewPartitionsKeepApart ==
  Spec => [][Packed(Space) =>
               /\ \A part \in aux'.created \ aux.created, p \in UsedParts(mem.parts) : ~Overlap(p, part)
               /\ "n" \in auxStale' => "n" \in auxStale]_vars
<1> DEFINE A == Packed(Space) =>
                  /\ \A part \in aux'.created \ aux.created, p \in UsedParts(mem.parts) : ~Overlap(p, part)
                  /\ "n" \in auxStale' => "n" \in auxStale
<1>1. ASSUME TypeInv, Next PROVE A
  <2>1. DOMAIN aux = AuxFields
    BY <1>1 DEF TypeInv, AskedInv
  <2>2. aux'.created \subseteq aux.created /\ ("n" \in auxStale' => "n" \in auxStale) => A
    OBVIOUS
  <2>3. CASE OptNew \/ OptLargest
    <3>1. CASE \E n, start, part : Creates(n, start, part)
      <4>1. PICK n, start, part : Creates(n, start, part)
        BY <3>1
      <4>2. aux'.created = aux.created \union {part}
        <5> DEFINE moved == aux.moved \/ part.first # start
                   created == aux.created \union {part}
        <5>1. aux' = [aux EXCEPT !.created = created, !.moved = moved]
          BY <4>1 DEF Creates
        <5> HIDE DEF moved, created
        <5>2. aux'.created = created
          BY <2>1, <5>1 DEF AuxFields
        <5> QED BY <5>2 DEF created
      <4> QED BY <4>1, <4>2 DEF Creates
    <3>2. CASE Fails /\ auxStale' = auxStale
      <4>1. aux'.created = aux.created
        BY <1>1, <3>2, FailsLeaves
      <4> QED BY <2>2, <3>2, <4>1
    <3> QED BY <1>1, <2>3, <3>1, <3>2, NewCreates DEF TypeInv
  <2>4. CASE OptDelete \/ OptTranspose \/ OptEdit \/ OptTouch \/ OptAlignment \/ OptMbrToGpt \/ OptHybrid
             \/ OptGptToMbr \/ OptBackup \/ OptReplicate \/ OptAttributes
    <3>1. auxStale' = auxStale
      BY <2>4 DEF OptDelete, OptTranspose, OptEdit, OptTouch, OptAlignment, OptMbrToGpt, OptHybrid,
                  OptGptToMbr, OptBackup, OptReplicate, OptAttributes, Option
    <3>2. \/ Fails \/ aux' = aux
          \/ \E p : aux' = [aux EXCEPT !.created = @ \ {p}]
          \/ \E f, v : f \in {"failed", "asked"} /\ aux' = [aux EXCEPT ![f] = v]
      <4>1. CASE OptDelete \/ OptTranspose \/ OptEdit \/ OptTouch \/ OptAlignment
        BY <4>1 DEF OptDelete, OptTranspose, OptEdit, OptTouch, OptAlignment
      <4>2. CASE OptHybrid \/ OptGptToMbr \/ OptBackup \/ OptReplicate
        BY <4>2 DEF OptHybrid, OptGptToMbr, OptBackup, OptReplicate
      <4>3. CASE OptAttributes \/ OptMbrToGpt
        BY <4>3 DEF OptAttributes, OptMbrToGpt
      <4> QED BY <2>4, <4>1, <4>2, <4>3
    <3>3. aux'.created \subseteq aux.created
      BY <1>1, <2>1, <3>2, FailsLeaves DEF AuxFields
    <3> QED BY <2>2, <3>1, <3>3
  <2>5. CASE OptClear \/ OptLoadBackup \/ OptZap
    <3>1. "n" \in auxStale' => "n" \in auxStale
      BY <2>5 DEF OptClear, OptLoadBackup, OptZap
    <3>2. \/ aux' = [aux EXCEPT !.created = {}]
          \/ \E v : aux' = [aux EXCEPT !.created = {}, !.failed = v]
          \/ \E v : aux' = [aux EXCEPT !.asked = v, !.created = {}]
      BY <2>5 DEF OptClear, OptLoadBackup, OptZap
    <3>3. aux'.created = {}
      BY <2>1, <3>2 DEF AuxFields
    <3> QED BY <2>2, <3>1, <3>3
  <2>6. CASE Start \/ UnknownWipeMode \/ Exit
    <3>1. auxStale' = auxStale
      BY <2>6 DEF Start, UnknownWipeMode, Exit
    <3> DEFINE mbr == WhichWasUsed = "mbr"
    <3>2. aux' = NoAux \/ \E v : aux' = [NoAux EXCEPT !.asked = v, !.nonGpt = mbr]
      BY <2>6 DEF Start, UnknownWipeMode, Exit
    <3> HIDE DEF mbr
    <3>3. NoAux.created = {} /\ DOMAIN NoAux = AuxFields
      BY DEF NoAux, AuxFields
    <3>4. aux'.created = {}
      BY <3>2, <3>3 DEF AuxFields
    <3> QED BY <2>2, <3>1, <3>4
  <2>7. CASE EndOptions \/ Wipe \/ Save \/ SaveFails \/ GdiskHybrid
    <3>1. auxStale' = auxStale /\ aux' = aux
      BY <2>7 DEF EndOptions, Wipe, Save, SaveFails, GdiskHybrid
    <3> QED BY <2>2, <3>1
  <2> QED BY <1>1, <2>3, <2>4, <2>5, <2>6, <2>7 DEF Next, TakeOption
<1>2. UNCHANGED vars => A
  BY DEF vars
<1>3. TypeInv /\ [Next]_vars => A
  BY <1>1, <1>2
<1> QED BY <1>3, TypeHolds, PTL DEF Spec

=============================================================================
