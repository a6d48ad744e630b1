---------------------------- MODULE Dashboard_proofs ----------------------------
(***************************************************************************)
(* Theorems about Dashboard, for every value of its constants: any number  *)
(* of runs, commands and stop requests.                                    *)
(*                                                                         *)
(* The inductive invariant has four parts.  Rank: both files rank only     *)
(* what is completed.  Sound: so do the copies, a run ranks nothing before *)
(* its end, and shows no enabled strategy "running" but those in todo and  *)
(* at most one more.  Whole: unless two saves have crossed, one process    *)
(* saves at a time, into a file of its own.  Kept: a command whose copy is *)
(* of the present file has all its results.                                *)
(***************************************************************************)
EXTENDS Dashboard, TLAPS

InSave(p) == pc[p] \in {"open", "write", "replace"}

\* It saves its dashboard at one of these points of its command.
SavingAt(p, stages) == InSave(p) /\ ~healing[p] /\ stage[p] \in stages

RanksCompleted(d) == d.ranked \subseteq Completed(d)

\* A run that has begun and not come to its ranking.
Underway(r) ==
  pc[r] \in {"candles", "loop", "work"} \/ SavingAt(r, {"begin", "begun", "worked"})

Rank ==
  /\ file \in Data => RanksCompleted(file)
  /\ tmp \in Data => RanksCompleted(tmp)

\* The enabled strategies that a process shows as running.
Busy(p) == Running(copy[p]) \cap Enabled

Left(r) ==
  /\ pc[r] = "candles" \/ SavingAt(r, {"begin"}) => todo[r] = Enabled
  /\ pc[r] = "loop" \/ SavingAt(r, {"worked"}) => Busy(r) \subseteq todo[r]
  /\ pc[r] = "work" \/ SavingAt(r, {"begun"}) =>
       \E s \in Enabled : Busy(r) \subseteq todo[r] \cup {s}
  /\ SavingAt(r, {"halted", "stopped", "last"}) => Busy(r) = {}
  /\ pc[r] = "end" /\ stage[r] \in {"halted", "last"} => Busy(r) = {}

Sound(p) ==
  /\ RanksCompleted(copy[p])
  /\ p \in Runs => /\ Underway(p) => copy[p].ranked = {}
                   /\ Left(p)

\* Who has a handle, and on what.
Handles ==
  /\ \A p \in Mains : hand[p] # "none" => pc[p] = "write"
  /\ \A q \in Stops : ~Saving(q) /\ hand[q] # "tmp"

\* One save at a time.
Orderly ==
  /\ \A p, q \in Mains : Saving(p) /\ Saving(q) => p = q
  /\ \A p \in Mains : pc[p] = "write" => hand[p] = "tmp" /\ ~mixed["tmp"]
  /\ \A p \in Mains : pc[p] = "replace" => tmp = copy[p]
  /\ \A q \in Stops : hand[q] = "file" => ~mixed["file"]
  /\ \A p, q \in Stops : hand[p] = "file" /\ hand[q] = "file" => p = q

Whole == Handles /\ (~damaged => Orderly) /\ FileIsWhole

Kept ==
  \A p \in Savers \cap current :
    (pc[p] = "modify" \/ InSave(p)) /\ file \in Data => Completed(file) \subseteq Completed(copy[p])

IInv == TypeOK /\ Rank /\ (\A p \in Processes : Sound(p)) /\ Whole /\ Kept

-----------------------------------------------------------------------------
(* Dashboards in memory.                                                   *)

LEMMA DefaultData == Default \in Data /\ RanksCompleted(Default)
BY DEF Default, Data, Entry, RanksCompleted

LEMMA MarkedData ==
  ASSUME NEW d \in Data, NEW which \in SUBSET Strategies, NEW status \in Entry
  PROVE  /\ Marked(d, which, status) \in Data
         /\ Marked(d, which, status).ranked = d.ranked
         /\ Running(Marked(d, which, status)) =
              (IF status = "running" THEN Running(d) \cup which ELSE Running(d) \ which)
         /\ Completed(Marked(d, which, status)) =
              (IF status \in {"completed", "live"} THEN Completed(d) \cup which
                                                   ELSE Completed(d) \ which)
<1> DEFINE e == [s \in Strategies |-> IF s \in which THEN status ELSE d.entry[s]]
<1>1. e \in [Strategies -> Entry]
  BY DEF Data
<1>2. /\ Marked(d, which, status) \in Data
      /\ Marked(d, which, status).ranked = d.ranked
      /\ Marked(d, which, status).entry = e
  BY <1>1 DEF Marked, Data
<1>3. \A s \in Strategies : e[s] = IF s \in which THEN status ELSE d.entry[s]
  OBVIOUS
<1> HIDE DEF e
<1>4. Running(Marked(d, which, status)) =
        (IF status = "running" THEN Running(d) \cup which ELSE Running(d) \ which)
  BY <1>2, <1>3 DEF Running
<1>5. Completed(Marked(d, which, status)) =
        (IF status \in {"completed", "live"} THEN Completed(d) \cup which
                                             ELSE Completed(d) \ which)
  BY <1>2, <1>3 DEF Completed
<1> QED
  BY <1>2, <1>4, <1>5

LEMMA RankedData ==
  ASSUME NEW d \in Data
  PROVE  /\ Ranked(d) \in Data
         /\ RanksCompleted(Ranked(d))
         /\ Running(Ranked(d)) = Running(d)
         /\ Completed(Ranked(d)) = Completed(d)
<1>1. Completed(d) \subseteq Strategies
  BY DEF Completed
<1>2. Ranked(d) \in Data /\ Ranked(d).ranked = Completed(d) /\ Ranked(d).entry = d.entry
  BY <1>1 DEF Ranked, Data
<1> QED
  BY <1>2 DEF RanksCompleted, Running, Completed

LEMMA SkeletonData ==
  ASSUME NEW d \in Data
  PROVE  Skeleton(d) \in Data /\ Skeleton(d).ranked = {}
<1>1. Enabled \in SUBSET Strategies /\ "running" \in Entry
  BY DashboardAssumption DEF Entry
<1>2. Marked(d, Enabled, "running") \in Data
  BY <1>1, MarkedData
<1> QED
  BY <1>2 DEF Skeleton, Data

-----------------------------------------------------------------------------
(* Types.                                                                  *)

LEMMA TypeInit == Init => TypeOK
<1> SUFFICES ASSUME Init PROVE TypeOK
  OBVIOUS
<1>1. file \in Data \cup {Torn, None}
  BY DashboardAssumption DEF Init
<1>2. copy \in [Processes -> Data]
  BY DefaultData DEF Init
<1> QED
  BY <1>1, <1>2 DEF Init, TypeOK, Pcs, Stages, Commands

\* The locals of one process after a step that only changes its own.
LocalTypes ==
  /\ pc \in [Processes -> Pcs]
  /\ stage \in [Processes -> Stages]
  /\ healing \in [Processes -> BOOLEAN]
  /\ copy \in [Processes -> Data]
  /\ todo \in [Runs -> SUBSET Enabled]

LEMMA MoveTypes ==
  ASSUME TypeOK, NEW p \in Processes
  PROVE  /\ Gone(p) => LocalTypes'
         /\ \A for \in Stages : Load(p, for) => LocalTypes'
         /\ \A for \in Stages, d \in Data :
              Save(p, for, d) => /\ pc' \in [Processes -> Pcs]
                                 /\ stage' \in [Processes -> Stages]
                                 /\ healing' \in [Processes -> BOOLEAN]
                                 /\ copy' \in [Processes -> Data]
         /\ \A to \in Pcs : Go(p, to) => pc' \in [Processes -> Pcs]
<1> USE DEF TypeOK, LocalTypes, Go
<1>1. "over" \in Pcs /\ "load" \in Pcs /\ "open" \in Pcs
  BY DEF Pcs
<1>2. "repair" \in Stages
  BY DEF Stages
<1>3. Gone(p) => LocalTypes'
  BY <1>1, <1>2, DefaultData DEF Gone
<1>4. \A for \in Stages : Load(p, for) => LocalTypes'
  BY <1>1 DEF Load
<1>5. \A for \in Stages, d \in Data :
        Save(p, for, d) => /\ pc' \in [Processes -> Pcs]
                           /\ stage' \in [Processes -> Stages]
                           /\ healing' \in [Processes -> BOOLEAN]
                           /\ copy' \in [Processes -> Data]
  BY <1>1 DEF Save
<1> QED
  BY <1>3, <1>4, <1>5

LEMMA AfterSaveTypes ==
  ASSUME TypeOK, NEW p \in Mains, AfterSave(p)
  PROVE  LocalTypes'
<1> USE DEF LocalTypes
<1>0. p \in Processes
  BY DEF Processes
<1>1. CASE healing[p]
  BY <1>0, <1>1 DEF AfterSave, Go, TypeOK, Pcs
<1>2. CASE ~healing[p] /\ stage[p] = "repair"
  <2>1. \E for \in Stages : Load(p, for)
    BY <1>2 DEF AfterSave, AfterRepair, Stages, Commands
  <2> QED
    BY <1>0, <2>1, MoveTypes
<1>3. CASE ~healing[p] /\ stage[p] \in {"stopped", "begin"} /\ \E d \in Data : Save(p, "last", d) /\ UNCHANGED todo
  <2>1. "last" \in Stages
    BY DEF Stages
  <2> QED
    BY <1>0, <1>3, <2>1, MoveTypes DEF TypeOK
<1>4. CASE Gone(p)
  BY <1>0, <1>4, MoveTypes
<1>5. CASE (\E to \in Pcs : Go(p, to)) /\ UNCHANGED <<stage, healing, copy, todo>>
  BY <1>0, <1>5, MoveTypes DEF TypeOK
<1>6. copy[p] \in Data /\ Ranked(copy[p]) \in Data
  BY <1>0, RankedData DEF TypeOK
<1>7. \/ healing[p]
      \/ ~healing[p] /\ stage[p] = "repair"
      \/ ~healing[p] /\ stage[p] \in {"stopped", "begin"} /\ \E d \in Data : Save(p, "last", d) /\ UNCHANGED todo
      \/ Gone(p)
      \/ (\E to \in Pcs : Go(p, to)) /\ UNCHANGED <<stage, healing, copy, todo>>
  BY <1>6 DEF AfterSave, Pcs
<1> QED
  BY <1>1, <1>2, <1>3, <1>4, <1>5, <1>7

LEMMA TypeSave ==
  ASSUME TypeOK, NEW p \in Mains, SaveStep(p)
  PROVE  TypeOK'
<1>0. p \in Processes /\ copy[p] \in Data /\ Ranked(copy[p]) \in Data
  BY RankedData DEF TypeOK, Processes
<1>1. CASE LoadDashboard(p)
  <2> DEFINE d == IF file \in Data THEN file ELSE Default
             heals == file \in Data /\ d.ranked = {} /\ Completed(d) # {}
  <2>1. d \in Data /\ Ranked(d) \in Data
    BY DefaultData, RankedData
  <2>2. /\ Go(p, IF heals THEN "open" ELSE "modify")
        /\ healing' = [healing EXCEPT ![p] = heals]
        /\ copy' = [copy EXCEPT ![p] = IF heals THEN Ranked(d) ELSE d]
        /\ current' = IF file \in Data THEN current \cup {p} ELSE current \ {p}
        /\ UNCHANGED <<files, hand, stage, todo, stop, damaged>>
    BY <1>1 DEF LoadDashboard
  <2>3. heals \in BOOLEAN
    OBVIOUS
  <2> HIDE DEF d, heals
  <2> QED
    BY <1>0, <2>1, <2>2, <2>3 DEF TypeOK, Go, Pcs, files
<1>2. CASE SaveOpen(p)
  <2>1. damaged' \in BOOLEAN /\ mixed' \in [{"tmp", "file"} -> BOOLEAN]
    BY <1>2, Zenon DEF SaveOpen, TypeOK
  <2> QED
    BY <1>0, <1>2, <2>1 DEF SaveOpen, TypeOK, Go, Pcs
<1>3. CASE SaveWrite(p)
  <2>1. \A f \in {"tmp", "file"} : Written(f, copy[p]) \subseteq Data \cup {Torn}
    BY <1>0 DEF Written
  <2>2. hand[p] \in {"none", "tmp", "file"}
    BY <1>0 DEF TypeOK
  <2>3. file' \in Data \cup {Torn, None} /\ tmp' \in Data \cup {Torn, None} /\ current' \subseteq Processes
    BY <1>3, <2>1, <2>2 DEF SaveWrite, TypeOK
  <2> QED
    BY <1>0, <1>3, <2>3 DEF SaveWrite, TypeOK, Go, Pcs
<1>4. CASE SaveReplace(p)
  <2>1. LocalTypes'
    BY <1>4, AfterSaveTypes DEF SaveReplace
  <2>2. damaged' \in BOOLEAN
    BY <1>4, Zenon DEF SaveReplace, TypeOK
  <2>3. mixed' \in [{"tmp", "file"} -> BOOLEAN]
    BY <1>4 DEF SaveReplace, TypeOK
  <2> QED
    BY <1>4, <2>1, <2>2, <2>3 DEF SaveReplace, TypeOK, LocalTypes
<1>5. CASE SaveFails(p)
  <2>1. LocalTypes'
    <3>1. CASE healing[p]
      BY <1>0, <1>5, <3>1, DefaultData DEF SaveFails, Go, TypeOK, Pcs, LocalTypes
    <3>2. CASE Gone(p)
      BY <1>0, <3>2, MoveTypes
    <3>3. CASE Save(p, "last", copy[p]) /\ UNCHANGED todo
      <4>1. "last" \in Stages
        BY DEF Stages
      <4> QED
        BY <1>0, <3>3, <4>1, MoveTypes DEF TypeOK, LocalTypes
    <3>4. CASE Go(p, "end") /\ UNCHANGED <<stage, healing, copy, todo>>
      BY <1>0, <3>4 DEF TypeOK, LocalTypes, Go, Pcs
    <3> QED
      BY <1>5, <3>1, <3>2, <3>3, <3>4 DEF SaveFails
  <2> QED
    BY <1>5, <2>1 DEF SaveFails, TypeOK, LocalTypes, files
<1>6. CASE ConfigFails(p)
  <2>1. LocalTypes'
    <3>1. CASE copy' = [copy EXCEPT ![p] = Default] /\ UNCHANGED <<pc, stage, healing, todo>>
      BY <1>0, <3>1, DefaultData DEF TypeOK, LocalTypes
    <3>2. CASE Gone(p)
      BY <1>0, <3>2, MoveTypes
    <3>3. CASE Go(p, "end") /\ UNCHANGED <<stage, healing, copy, todo>>
      BY <1>0, <3>3 DEF TypeOK, LocalTypes, Go, Pcs
    <3> QED
      BY <1>6, <3>1, <3>2, <3>3 DEF ConfigFails
  <2> QED
    BY <1>6, <2>1 DEF ConfigFails, TypeOK, LocalTypes, files
<1> QED
  BY <1>1, <1>2, <1>3, <1>4, <1>5, <1>6 DEF SaveStep

\* What the commands and a run do in memory.
LEMMA TypeUnseen ==
  ASSUME TypeOK, Unseen, LocalTypes'
  PROVE  TypeOK'
BY DEF TypeOK, Unseen, LocalTypes, files, history

LEMMA MarkedTypes ==
  ASSUME TypeOK, NEW p \in Mains
  PROVE  /\ copy[p] \in Data /\ Ranked(copy[p]) \in Data
         /\ Skeleton(copy[p]) \in Data /\ Stopped(copy[p]) \in Data
         /\ \A s \in Strategies, e \in Entry : Marked(copy[p], {s}, e) \in Data
         /\ \A which \in SUBSET Strategies, e \in Entry :
              Marked(copy[p], which \cap Running(copy[p]), e) \in Data
         /\ Marked(copy[p], Live(copy[p]), "completed") \in Data
<1>1. copy[p] \in Data
  BY DEF TypeOK, Processes
<1>2. Running(copy[p]) \in SUBSET Strategies /\ Live(copy[p]) \in SUBSET Strategies
  BY DEF Running, Live
<1>3. "idle" \in Entry /\ "completed" \in Entry
  BY DEF Entry
<1>4. \A s \in Strategies, e \in Entry : Marked(copy[p], {s}, e) \in Data
  BY <1>1, MarkedData
<1>5. \A which \in SUBSET Strategies, e \in Entry :
        Marked(copy[p], which \cap Running(copy[p]), e) \in Data
  <2> TAKE which \in SUBSET Strategies, e \in Entry
  <2>1. which \cap Running(copy[p]) \in SUBSET Strategies
    OBVIOUS
  <2> QED
    BY <1>1, <2>1, MarkedData
<1>6. Stopped(copy[p]) \in Data /\ Marked(copy[p], Live(copy[p]), "completed") \in Data
  BY <1>1, <1>2, <1>3, MarkedData DEF Stopped
<1> QED
  BY <1>1, <1>4, <1>5, <1>6, RankedData, SkeletonData

LEMMA TypeCommand ==
  ASSUME TypeOK, NEW p \in Mains, CommandStep(p)
  PROVE  TypeOK'
<1>0. p \in Processes /\ LocalTypes
  BY DEF Processes, TypeOK, LocalTypes
<1>1. "repair" \in Stages /\ "clear" \in Stages /\ "rank" \in Stages
      /\ "enable" \in Stages /\ "tick" \in Stages
  BY DEF Stages, Commands
<1>2. "error" \in Entry /\ "completed" \in Entry /\ "live" \in Entry
  BY DEF Entry
<1>3. ASSUME NEW for \in Stages, NEW d \in Data, Save(p, for, d), UNCHANGED todo, Unseen
      PROVE  TypeOK'
  <2>1. LocalTypes'
    BY <1>0, <1>3, MoveTypes DEF LocalTypes
  <2> QED
    BY <1>3, <2>1, TypeUnseen
<1>4. ASSUME NEW for \in Stages, Load(p, for), Unseen
      PROVE  TypeOK'
  <2>1. LocalTypes'
    BY <1>0, <1>4, MoveTypes
  <2> QED
    BY <1>4, <2>1, TypeUnseen
<1>5. CASE Repair(p)
  <2>1. CASE AfterRepair(p) /\ Unseen
    BY <2>1, <1>1, <1>4 DEF AfterRepair
  <2>2. ASSUME NEW found \in SUBSET Oversized,
               Save(p, "repair", Marked(copy[p], found \cap Running(copy[p]), "error")),
               UNCHANGED todo, Unseen
        PROVE  TypeOK'
    <3>1. found \in SUBSET Strategies
      BY DashboardAssumption
    <3>2. Marked(copy[p], found \cap Running(copy[p]), "error") \in Data
      BY <1>2, <3>1, MarkedTypes
    <3> QED
      BY <1>1, <1>3, <2>2, <3>2
  <2> QED
    BY <1>5, <2>1, <2>2 DEF Repair
<1>6. CASE ClearLive(p)
  <2>1. CASE Save(p, "clear", Marked(copy[p], Live(copy[p]), "completed")) /\ UNCHANGED todo /\ Unseen
    BY <1>1, <1>3, <2>1, MarkedTypes
  <2>2. CASE Go(p, "start") /\ UNCHANGED <<stage, healing, copy, todo>> /\ Unseen
    <3>1. LocalTypes'
      BY <1>0, <2>2 DEF LocalTypes, Go, Pcs
    <3> QED
      BY <2>2, <3>1, TypeUnseen
  <2>3. CASE Gone(p) /\ Unseen
    BY <1>0, <2>3, MoveTypes, TypeUnseen
  <2> QED
    BY <1>6, <2>1, <2>2, <2>3 DEF ClearLive
<1>7. CASE RefreshRanking(p)
  BY <1>7, <1>1, <1>3, MarkedTypes DEF RefreshRanking
<1>8. CASE SetEnabled(p)
  BY <1>8, <1>1, <1>3, MarkedTypes DEF SetEnabled
<1>9. CASE Tick(p)
  <2>1. PICK s \in Strategies : Save(p, "tick", Marked(copy[p], {s}, "live"))
    BY <1>9 DEF Tick
  <2>2. Marked(copy[p], {s}, "live") \in Data
    BY <1>2, MarkedTypes
  <2> QED
    BY <1>9, <1>1, <1>3, <2>1, <2>2 DEF Tick
<1> QED
  BY <1>5, <1>6, <1>7, <1>8, <1>9 DEF CommandStep

LEMMA TypeRun ==
  ASSUME TypeOK, NEW r \in Runs, RunStep(r)
  PROVE  TypeOK'
<1>0. r \in Processes /\ r \in Mains /\ LocalTypes
  BY DEF Mains, Processes, TypeOK, LocalTypes
<1>1. /\ "repair" \in Stages /\ "begin" \in Stages /\ "begun" \in Stages /\ "worked" \in Stages
      /\ "halted" \in Stages /\ "stopped" \in Stages /\ "last" \in Stages
  BY DEF Stages
<1>2. "running" \in Entry /\ "error" \in Entry /\ "idle" \in Entry /\ "completed" \in Entry
  BY DEF Entry
<1>3. ASSUME NEW for \in Stages, NEW d \in Data, Save(r, for, d), Unseen,
             todo' \in [Runs -> SUBSET Enabled]
      PROVE  TypeOK'
  <2>1. LocalTypes'
    BY <1>0, <1>3, MoveTypes DEF LocalTypes
  <2> QED
    BY <1>3, <2>1, TypeUnseen
<1>4. UNCHANGED todo => todo' \in [Runs -> SUBSET Enabled]
  BY DEF TypeOK
<1>5. CASE Bootstrap(r)
  <2>1. LocalTypes'
    BY <1>0, <1>1, <1>5, MoveTypes DEF Bootstrap
  <2> QED
    BY <1>5, <2>1, TypeUnseen DEF Bootstrap
<1>6. CASE Start(r)
  <2>1. LocalTypes'
    BY <1>0, <1>1, <1>6, MoveTypes DEF Start
  <2> QED
    BY <1>6, <2>1 DEF Start, TypeOK, LocalTypes, files, history
<1>7. CASE Begin(r)
  <2>1. todo' \in [Runs -> SUBSET Enabled]
    BY <1>7 DEF Begin, TypeOK
  <2> QED
    BY <1>0, <1>1, <1>3, <1>7, <2>1, MarkedTypes DEF Begin
<1>8. CASE Candles(r)
  <2>1. CASE Go(r, "loop") /\ UNCHANGED <<stage, healing, copy, todo>> /\ Unseen
    <3>1. LocalTypes'
      BY <1>0, <2>1 DEF LocalTypes, Go, Pcs
    <3> QED
      BY <2>1, <3>1, TypeUnseen
  <2>2. CASE Save(r, "halted", Stopped(copy[r])) /\ UNCHANGED todo /\ Unseen
    BY <1>0, <1>1, <1>3, <1>4, <2>2, MarkedTypes
  <2>3. CASE Save(r, "last", Marked(copy[r], Running(copy[r]), "error")) /\ UNCHANGED todo /\ Unseen
    <3>1. copy[r] \in Data /\ Running(copy[r]) \in SUBSET Strategies
      BY <1>0 DEF LocalTypes, Running
    <3>2. Marked(copy[r], Running(copy[r]), "error") \in Data
      BY <1>2, <3>1, MarkedData
    <3> QED
      BY <1>1, <1>3, <1>4, <2>3, <3>2
  <2> QED
    BY <1>8, <2>1, <2>2, <2>3 DEF Candles
<1>9. CASE Loop(r)
  <2>1. ASSUME NEW s \in todo[r], Save(r, "begun", Marked(copy[r], {s}, "running")),
               todo' = [todo EXCEPT ![r] = @ \ {s}], Unseen
        PROVE  TypeOK'
    <3>1. s \in Strategies /\ todo' \in [Runs -> SUBSET Enabled]
      BY <2>1, DashboardAssumption DEF TypeOK
    <3>2. Marked(copy[r], {s}, "running") \in Data
      BY <1>0, <1>2, <3>1, MarkedTypes
    <3> QED
      BY <1>1, <1>3, <2>1, <3>1, <3>2
  <2>2. ASSUME NEW others \in SUBSET (Strategies \ Enabled),
               Save(r, "stopped", Marked(copy[r], Running(copy[r]) \cap (todo[r] \cup others), "idle")),
               UNCHANGED todo, Unseen
        PROVE  TypeOK'
    <3>1. copy[r] \in Data /\ Running(copy[r]) \cap (todo[r] \cup others) \in SUBSET Strategies
      BY <1>0 DEF LocalTypes, Running
    <3>2. Marked(copy[r], Running(copy[r]) \cap (todo[r] \cup others), "idle") \in Data
      BY <1>2, <3>1, MarkedData
    <3> QED
      BY <1>1, <1>3, <1>4, <2>2, <3>2
  <2>3. CASE Save(r, "last", Ranked(copy[r])) /\ UNCHANGED todo /\ Unseen
    BY <1>0, <1>1, <1>3, <1>4, <2>3, MarkedTypes
  <2> QED
    BY <1>9, <2>1, <2>2, <2>3 DEF Loop
<1>10. CASE Work(r)
  <2>1. PICK s \in Strategies, result \in Entry :
          Save(r, "worked", Marked(copy[r], {s}, result))
    BY <1>2, <1>10 DEF Work, Running
  <2>2. Marked(copy[r], {s}, result) \in Data
    BY <1>0, MarkedTypes
  <2> QED
    BY <1>1, <1>3, <1>4, <1>10, <2>1, <2>2 DEF Work
<1>11. CASE End(r)
  <2>1. LocalTypes'
    BY <1>0, <1>11, MoveTypes DEF End
  <2> QED
    BY <1>11, <2>1 DEF End, TypeOK, LocalTypes, files
<1> QED
  BY <1>5, <1>6, <1>7, <1>8, <1>9, <1>10, <1>11 DEF RunStep

LEMMA TypeStop ==
  ASSUME TypeOK, NEW q \in Stops, StopStep(q)
  PROVE  TypeOK'
<1>0. q \in Processes
  BY DEF Processes
<1>1. CASE StopRequest(q)
  BY <1>0, <1>1 DEF StopRequest, TypeOK, Go, Pcs, files, history
<1>2. CASE StopKill(q)
  <2>1. ASSUME NEW r \in Runs,
               pc' = [pc EXCEPT ![q] = "read", ![r] = "over"],
               stage' = [stage EXCEPT ![r] = "repair"],
               healing' = [healing EXCEPT ![r] = FALSE],
               copy' = [copy EXCEPT ![r] = Default],
               hand' = [hand EXCEPT ![r] = "none"],
               current' = current \ {r},
               UNCHANGED <<files, todo, stop, damaged>>
        PROVE  TypeOK'
    <3>1. "repair" \in Stages /\ "read" \in Pcs /\ "over" \in Pcs
      BY DEF Stages, Pcs
    <3> QED
      BY <1>0, <2>1, <3>1, DefaultData DEF TypeOK, files
  <2>2. CASE Go(q, "read") /\ UNCHANGED <<stage, healing, copy, hand, current>>
             /\ UNCHANGED <<files, todo, stop, damaged>>
    BY <1>0, <2>2 DEF TypeOK, Go, Pcs, files
  <2> QED
    BY <1>2, <2>1, <2>2 DEF StopKill
<1>3. CASE StopRead(q)
  <2>1. file \in Data => Stopped(file) \in Data
    <3>1. Running(file) \in SUBSET Strategies /\ "idle" \in Entry
      BY DEF Running, Entry
    <3> QED
      BY <3>1, MarkedData DEF Stopped
  <2>2. copy' \in [Processes -> Data]
    BY <1>0, <1>3, <2>1 DEF StopRead, TypeOK
  <2> QED
    BY <1>0, <1>3, <2>2 DEF StopRead, TypeOK, Go, Pcs, files, history
<1>4. CASE StopOpen(q)
  <2>1. damaged' \in BOOLEAN /\ mixed' \in [{"tmp", "file"} -> BOOLEAN]
    BY <1>4, Zenon DEF StopOpen, TypeOK
  <2> QED
    BY <1>0, <1>4, <2>1 DEF StopOpen, TypeOK, Go, Pcs
<1>5. CASE StopWrite(q)
  <2>1. Written("file", copy[q]) \subseteq Data \cup {Torn}
    BY <1>0 DEF Written, TypeOK
  <2>2. file' \in Data \cup {Torn, None} /\ current' \subseteq Processes
    BY <1>5, <2>1 DEF StopWrite, TypeOK
  <2> QED
    BY <1>0, <1>5, <2>2, DefaultData DEF StopWrite, TypeOK, Go, Pcs
<1>6. CASE StopDies(q)
  <2>1. damaged' \in BOOLEAN
    BY <1>6, Zenon DEF StopDies, TypeOK
  <2> QED
    BY <1>0, <1>6, <2>1, DefaultData DEF StopDies, TypeOK, Go, Pcs, files
<1> QED
  BY <1>1, <1>2, <1>3, <1>4, <1>5, <1>6 DEF StopStep

LEMMA TypeNext == TypeOK /\ [Next]_vars => TypeOK'
<1> SUFFICES ASSUME TypeOK, [Next]_vars PROVE TypeOK'
  OBVIOUS
<1>1. ASSUME NEW p \in Mains, Die(p) PROVE TypeOK'
  <2>1. p \in Processes
    BY DEF Processes
  <2>2. LocalTypes'
    BY <1>1, <2>1, MoveTypes DEF Die
  <2> QED
    BY <1>1, <2>1, <2>2 DEF Die, TypeOK, LocalTypes, files
<1>2. ASSUME NEW p \in Savers, NEW command \in Commands, Call(p, command) PROVE TypeOK'
  <2>1. p \in Processes /\ "repair" \in Stages /\ command \in Stages
    BY DEF Processes, Mains, Stages
  <2>2. LocalTypes'
    BY <1>2, <2>1, MoveTypes DEF Call
  <2> QED
    BY <1>2, <2>2, TypeUnseen DEF Call
<1>3. CASE UNCHANGED vars
  BY <1>3 DEF vars, TypeOK
<1> QED
  BY <1>1, <1>2, <1>3, TypeSave, TypeCommand, TypeRun, TypeStop DEF Next

(* TypeCorrect: whoever runs and however the processes interleave, the files *)
(* and the copies are dashboards with the statuses that the source uses.     *)
THEOREM TypeCorrect == Spec => []TypeOK
BY TypeInit, TypeNext, PTL DEF Spec

-----------------------------------------------------------------------------
(* What a step does to the locals of the process that takes it.            *)

Others(p) ==
  \A q \in Processes \ {p} :
    /\ pc'[q] = pc[q] /\ stage'[q] = stage[q]
    /\ healing'[q] = healing[q] /\ copy'[q] = copy[q]
    /\ q \in Runs => todo'[q] = todo[q]

Became(p, at, who, heals, d) ==
  /\ pc'[p] = at /\ stage'[p] = who /\ healing'[p] = heals /\ copy'[p] = d
  /\ Others(p)

LEMMA Moves ==
  ASSUME TypeOK, NEW p \in Processes
  PROVE  /\ Gone(p) => /\ Became(p, "over", "repair", FALSE, Default)
                       /\ UNCHANGED todo
         /\ \A for : Load(p, for) => /\ Became(p, "load", for, healing[p], copy[p])
                                     /\ UNCHANGED todo
         /\ \A for, d : /\ Save(p, for, d)
                        /\ (\A r \in Runs \ {p} : todo'[r] = todo[r])
                        => Became(p, "open", for, healing[p], d)
         /\ \A at : Go(p, at) /\ UNCHANGED <<stage, healing, copy, todo>> =>
              Became(p, at, stage[p], healing[p], copy[p])
BY DEF TypeOK, Gone, Load, Save, Go, Became, Others

\* Everybody else is as before.
LEMMA OthersSound ==
  ASSUME NEW p \in Processes, Others(p), \A q \in Processes : Sound(q), Sound(p)'
  PROVE  \A q \in Processes : Sound(q)'
<1> SUFFICES ASSUME NEW q \in Processes \ {p} PROVE Sound(q)'
  OBVIOUS
<1>1. Sound(q) /\ pc'[q] = pc[q] /\ stage'[q] = stage[q] /\ healing'[q] = healing[q]
      /\ copy'[q] = copy[q] /\ (q \in Runs => todo'[q] = todo[q])
  BY DEF Others
<1> QED
  BY <1>1 DEF Sound, Underway, Left, SavingAt, InSave, Busy, RanksCompleted

\* Outside of a save, and of what a run does between them, nothing is asked.
Idle == Pcs \ {"candles", "loop", "work", "end", "open", "write", "replace"}

LEMMA IdleSound ==
  ASSUME NEW p \in Processes, pc'[p] \in Idle, RanksCompleted(copy'[p])
  PROVE  Sound(p)'
BY DEF Idle, Pcs, Sound, Underway, Left, SavingAt, InSave, RanksCompleted

\* What a save needs, by its stage.
LEMMA SaveSound ==
  ASSUME NEW p \in Processes, NEW for, NEW d, Became(p, "open", for, healing[p], d),
         RanksCompleted(d),
         p \in Runs => /\ for \in {"begin", "begun", "worked"} => d.ranked = {}
                       /\ for = "begin" => todo'[p] = Enabled
                       /\ for = "worked" => Running(d) \cap Enabled \subseteq todo'[p]
                       /\ for = "begun" =>
                            \E s \in Enabled : Running(d) \cap Enabled \subseteq todo'[p] \cup {s}
                       /\ for \in {"halted", "stopped", "last"} => Running(d) \cap Enabled = {}
  PROVE  Sound(p)'
BY DEF Became, Sound, Underway, Left, SavingAt, InSave, Busy, RanksCompleted

-----------------------------------------------------------------------------
(* Sound is inductive.                                                     *)

AllSound == \A p \in Processes : Sound(p)

LEMMA SoundData ==
  ASSUME TypeOK, AllSound, NEW p \in Processes
  PROVE  /\ copy[p] \in Data /\ RanksCompleted(copy[p])
         /\ RanksCompleted(Ranked(copy[p]))
         /\ Running(Ranked(copy[p])) = Running(copy[p])
BY RankedData DEF TypeOK, AllSound, Sound

LEMMA MovedSound ==
  ASSUME TypeOK, AllSound, NEW p \in Processes
  PROVE  /\ Gone(p) => AllSound'
         /\ \A for : Load(p, for) => AllSound'
         /\ \A at \in Idle : Go(p, at) /\ UNCHANGED <<stage, healing, copy, todo>> => AllSound'
<1>1. RanksCompleted(Default) /\ RanksCompleted(copy[p])
  BY DefaultData, SoundData
<1>2. ASSUME NEW at \in Idle, NEW who, NEW heals, NEW d,
             RanksCompleted(d), Became(p, at, who, heals, d)
      PROVE  AllSound'
  <2>1. Sound(p)'
    BY <1>2, IdleSound DEF Became
  <2> QED
    BY <1>2, <2>1, OthersSound DEF AllSound, Became
<1>3. "over" \in Idle /\ "load" \in Idle
  BY DEF Idle, Pcs
<1> QED
  BY <1>1, <1>2, <1>3, Moves

LEMMA SoundSaveStep ==
  ASSUME TypeOK, Rank, AllSound, NEW p \in Mains, SaveStep(p)
  PROVE  AllSound'
<1>0. p \in Processes /\ copy[p] \in Data /\ RanksCompleted(copy[p]) /\ Sound(p)
  BY SoundData DEF Processes, AllSound
<1>1. CASE LoadDashboard(p)
  <2> DEFINE d == IF file \in Data THEN file ELSE Default
             heals == file \in Data /\ d.ranked = {} /\ Completed(d) # {}
             e == IF heals THEN Ranked(d) ELSE d
  <2>1. d \in Data /\ RanksCompleted(d) /\ RanksCompleted(Ranked(d))
    BY DefaultData, RankedData DEF Rank
  <2>2. /\ Go(p, IF heals THEN "open" ELSE "modify")
        /\ healing' = [healing EXCEPT ![p] = heals]
        /\ copy' = [copy EXCEPT ![p] = e]
        /\ UNCHANGED <<stage, todo>>
    BY <1>1 DEF LoadDashboard
  <2>3. heals \in BOOLEAN /\ RanksCompleted(e)
    BY <2>1
  <2> HIDE DEF d, heals, e
  <2>4. Others(p) /\ copy'[p] = e /\ healing'[p] = heals
        /\ pc'[p] = (IF heals THEN "open" ELSE "modify")
    BY <1>0, <2>2 DEF Others, Go, TypeOK
  <2>5. Sound(p)'
    <3>1. CASE heals
      BY <2>3, <2>4, <3>1 DEF Sound, Underway, Left, SavingAt, InSave, RanksCompleted
    <3>2. CASE ~heals
      <4>1. pc'[p] \in Idle
        BY <2>4, <3>2 DEF Idle, Pcs
      <4> QED
        BY <1>0, <2>3, <2>4, <4>1, IdleSound
    <3> QED
      BY <3>1, <3>2
  <2> QED
    BY <1>0, <2>4, <2>5, OthersSound DEF AllSound
<1>2. ASSUME NEW at \in {"write", "replace"}, InSave(p), Go(p, at),
             UNCHANGED <<stage, healing, copy, todo>>
      PROVE  AllSound'
  <2>1. Became(p, at, stage[p], healing[p], copy[p]) /\ UNCHANGED todo
    BY <1>0, <1>2, Moves
  <2>2. Sound(p)'
    BY <1>0, <1>2, <2>1 DEF Became, Sound, Underway, Left, SavingAt, InSave, Busy, RanksCompleted
  <2> QED
    BY <1>0, <2>1, <2>2, OthersSound DEF AllSound, Became
<1>3. CASE SaveOpen(p)
  BY <1>2, <1>3 DEF SaveOpen, InSave
<1>4. CASE SaveWrite(p)
  BY <1>2, <1>4 DEF SaveWrite, InSave
<1>5. ASSUME NEW d, Save(p, "last", d), UNCHANGED todo, RanksCompleted(d),
             p \in Runs => Running(d) \cap Enabled = {}
      PROVE  AllSound'
  <2>1. Became(p, "open", "last", healing[p], d)
    BY <1>0, <1>5, Moves
  <2>2. Sound(p)'
    BY <1>0, <1>5, <2>1, SaveSound
  <2> QED
    BY <1>0, <2>1, <2>2, OthersSound DEF AllSound, Became
<1>6. ASSUME NEW d, Go(p, "modify"), healing' = [healing EXCEPT ![p] = FALSE],
             copy' = [copy EXCEPT ![p] = d], UNCHANGED <<stage, todo>>, RanksCompleted(d)
      PROVE  AllSound'
  <2>1. Others(p) /\ pc'[p] = "modify" /\ copy'[p] = d
    BY <1>0, <1>6 DEF Others, Go, TypeOK
  <2>2. "modify" \in Idle
    BY DEF Idle, Pcs
  <2> QED
    BY <1>0, <1>6, <2>1, <2>2, IdleSound, OthersSound DEF AllSound
<1>7. CASE SaveReplace(p)
  <2>0. AfterSave(p) /\ InSave(p)
    BY <1>7 DEF SaveReplace, InSave
  <2>1. CASE healing[p]
    <3>1. copy' = [copy EXCEPT ![p] = copy[p]]
      BY <2>0, <2>1 DEF AfterSave, TypeOK
    <3> QED
      BY <1>0, <1>6, <2>0, <2>1, <3>1 DEF AfterSave
  <2>2. CASE \E for : Load(p, for)
    BY <1>0, <2>2, MovedSound
  <2>3. CASE Gone(p)
    BY <1>0, <2>3, MovedSound
  <2>4. CASE ~healing[p] /\ stage[p] = "stopped" /\ Save(p, "last", Ranked(copy[p])) /\ UNCHANGED todo
    <3>1. p \in Runs => Running(Ranked(copy[p])) \cap Enabled = {}
      BY <1>0, <2>0, <2>4, SoundData DEF Sound, Left, SavingAt, Busy
    <3> QED
      BY <1>0, <1>5, <2>4, <3>1, SoundData
  <2>5. CASE Enabled = {} /\ Save(p, "last", copy[p]) /\ UNCHANGED todo
    BY <1>0, <1>5, <2>5
  <2>6. ASSUME NEW at, Go(p, at), UNCHANGED <<stage, healing, copy, todo>>,
               ~healing[p], p \in Runs,
               \/ stage[p] = "clear" /\ at = "start"
               \/ stage[p] = "begin" /\ at = "candles"
               \/ stage[p] = "begun" /\ at = "work"
               \/ stage[p] = "worked" /\ at = "loop"
               \/ at = "end"
        PROVE  AllSound'
    <3>1. Became(p, at, stage[p], healing[p], copy[p]) /\ UNCHANGED todo
      BY <1>0, <2>6, Moves
    <3>2. Sound(p)'
      BY <1>0, <2>0, <2>6, <3>1
        DEF Became, Sound, Underway, Left, SavingAt, InSave, Busy, RanksCompleted
    <3> QED
      BY <1>0, <3>1, <3>2, OthersSound DEF AllSound, Became
  <2>7. p \in Runs \/ p \in Savers
    BY DEF Mains
  <2>8. \/ healing[p]
        \/ \E for : Load(p, for)
        \/ Gone(p)
        \/ ~healing[p] /\ stage[p] = "stopped" /\ Save(p, "last", Ranked(copy[p])) /\ UNCHANGED todo
        \/ Enabled = {} /\ Save(p, "last", copy[p]) /\ UNCHANGED todo
        \/ /\ ~healing[p] /\ p \in Runs /\ UNCHANGED <<stage, healing, copy, todo>>
           /\ \/ stage[p] = "clear" /\ Go(p, "start")
              \/ stage[p] = "begin" /\ Go(p, "candles")
              \/ stage[p] = "begun" /\ Go(p, "work")
              \/ stage[p] = "worked" /\ Go(p, "loop")
              \/ Go(p, "end")
    BY <2>0, <2>7 DEF AfterSave, AfterRepair
  <2> QED
    BY <2>1, <2>2, <2>3, <2>4, <2>5, <2>6, <2>8
<1>8. CASE SaveFails(p)
  <2>0. InSave(p)
    BY <1>8 DEF SaveFails, InSave
  <2>1. CASE healing[p]
    BY <1>6, <1>8, <2>1, DefaultData DEF SaveFails
  <2>2. CASE Gone(p)
    BY <1>0, <2>2, MovedSound
  <2>3. CASE ~healing[p] /\ stage[p] = "halted" /\ Save(p, "last", copy[p]) /\ UNCHANGED todo
    <3>1. p \in Runs => Running(copy[p]) \cap Enabled = {}
      BY <1>0, <2>0, <2>3 DEF Sound, Left, SavingAt, Busy
    <3> QED
      BY <1>0, <1>5, <2>3, <3>1
  <2>4. CASE ~healing[p] /\ Go(p, "end") /\ UNCHANGED <<stage, healing, copy, todo>>
    <3>1. Became(p, "end", stage[p], healing[p], copy[p]) /\ UNCHANGED todo
      BY <1>0, <2>4, Moves
    <3>2. Sound(p)'
      BY <1>0, <2>0, <2>4, <3>1
        DEF Became, Sound, Underway, Left, SavingAt, InSave, Busy, RanksCompleted
    <3> QED
      BY <1>0, <3>1, <3>2, OthersSound DEF AllSound, Became
  <2> QED
    BY <1>8, <2>1, <2>2, <2>3, <2>4 DEF SaveFails
<1>9. CASE ConfigFails(p)
  <2>0. pc[p] = "modify"
    BY <1>9 DEF ConfigFails
  <2>1. CASE copy' = [copy EXCEPT ![p] = Default] /\ UNCHANGED <<pc, stage, healing, todo>>
    <3>1. Others(p) /\ pc'[p] = "modify" /\ copy'[p] = Default
      BY <1>0, <2>0, <2>1 DEF Others, TypeOK
    <3>2. "modify" \in Idle /\ RanksCompleted(Default)
      BY DefaultData DEF Idle, Pcs
    <3> QED
      BY <1>0, <2>1, <3>1, <3>2, IdleSound, OthersSound DEF AllSound
  <2>2. CASE Gone(p)
    BY <1>0, <2>2, MovedSound
  <2>3. CASE stage[p] = "begin" /\ Go(p, "end") /\ UNCHANGED <<stage, healing, copy, todo>>
    <3>1. Became(p, "end", stage[p], healing[p], copy[p]) /\ UNCHANGED todo
      BY <1>0, <2>3, Moves
    <3>2. Sound(p)'
      BY <1>0, <2>0, <2>3, <3>1
        DEF Became, Sound, Underway, Left, SavingAt, InSave, Busy, RanksCompleted
    <3> QED
      BY <1>0, <3>1, <3>2, OthersSound DEF AllSound, Became
  <2> QED
    BY <1>9, <2>1, <2>2, <2>3 DEF ConfigFails
<1> QED
  BY <1>1, <1>3, <1>4, <1>7, <1>8, <1>9 DEF SaveStep

LEMMA SavedSound ==
  ASSUME TypeOK, AllSound, NEW p \in Processes, NEW for, NEW d, Save(p, for, d),
         \A r \in Runs \ {p} : todo'[r] = todo[r],
         RanksCompleted(d),
         p \in Runs => /\ for \in {"begin", "begun", "worked"} => d.ranked = {}
                       /\ for = "begin" => todo'[p] = Enabled
                       /\ for = "worked" => Running(d) \cap Enabled \subseteq todo'[p]
                       /\ for = "begun" =>
                            \E s \in Enabled : Running(d) \cap Enabled \subseteq todo'[p] \cup {s}
                       /\ for \in {"halted", "stopped", "last"} => Running(d) \cap Enabled = {}
  PROVE  AllSound'
<1>1. Became(p, "open", for, healing[p], d)
  BY Moves
<1>2. Sound(p)'
  BY <1>1, SaveSound
<1> QED
  BY <1>1, <1>2, OthersSound DEF AllSound, Became

\* To change the status of strategies that are not ranked keeps the ranking right.
LEMMA MarkedRanks ==
  ASSUME NEW d \in Data, RanksCompleted(d), NEW which \in SUBSET Strategies, NEW status \in Entry,
         \/ status \in {"completed", "live"}
         \/ which \subseteq Running(d)
         \/ d.ranked = {}
  PROVE  RanksCompleted(Marked(d, which, status))
<1>1. Running(d) \cap Completed(d) = {}
  BY DEF Running, Completed
<1> DEFINE e == Marked(d, which, status)
<1>2. /\ e.ranked = d.ranked
      /\ Completed(e) = (IF status \in {"completed", "live"} THEN Completed(d) \cup which
                                                             ELSE Completed(d) \ which)
  BY MarkedData
<1> HIDE DEF e
<1>3. d.ranked \subseteq Completed(d)
  BY DEF RanksCompleted
<1>4. e.ranked \subseteq Completed(e)
  BY <1>1, <1>2, <1>3
<1> QED
  BY <1>4 DEF RanksCompleted, e

LEMMA SoundCommand ==
  ASSUME TypeOK, AllSound, NEW p \in Mains, CommandStep(p)
  PROVE  AllSound'
<1>0. p \in Processes /\ copy[p] \in Data /\ RanksCompleted(copy[p])
  BY SoundData DEF Processes
<1>1. ASSUME NEW for \in {"repair", "clear", "rank", "enable", "tick"}, NEW d,
             Save(p, for, d), UNCHANGED todo, RanksCompleted(d)
      PROVE  AllSound'
  <2>1. for \notin {"begin", "begun", "worked"} /\ for \notin {"halted", "stopped", "last"}
    BY <1>1
  <2>2. for # "begin" /\ for # "worked" /\ for # "begun"
    BY <1>1
  <2>3. Became(p, "open", for, healing[p], d)
    BY <1>0, <1>1, Moves
  <2>4. Sound(p)'
    BY <1>0, <1>1, <2>1, <2>2, <2>3, SaveSound
  <2> QED
    BY <1>0, <2>3, <2>4, OthersSound DEF AllSound, Became
<1>2. CASE Repair(p)
  <2>1. CASE AfterRepair(p)
    BY <1>0, <2>1, MovedSound DEF AfterRepair
  <2>2. ASSUME NEW found \in SUBSET Oversized,
               Save(p, "repair", Marked(copy[p], found \cap Running(copy[p]), "error")),
               UNCHANGED todo
        PROVE  AllSound'
    <3>1. found \cap Running(copy[p]) \in SUBSET Strategies /\ "error" \in Entry
      BY DEF Running, Entry
    <3>2. RanksCompleted(Marked(copy[p], found \cap Running(copy[p]), "error"))
      BY <1>0, <3>1, MarkedRanks
    <3> QED
      BY <1>1, <2>2, <3>2
  <2> QED
    BY <1>2, <2>1, <2>2 DEF Repair
<1>3. CASE ClearLive(p)
  <2>1. CASE Save(p, "clear", Marked(copy[p], Live(copy[p]), "completed")) /\ UNCHANGED todo
    <3>1. Live(copy[p]) \in SUBSET Strategies /\ "completed" \in Entry
      BY DEF Live, Entry
    <3>2. RanksCompleted(Marked(copy[p], Live(copy[p]), "completed"))
      BY <1>0, <3>1, MarkedRanks
    <3> QED
      BY <1>1, <2>1, <3>2
  <2>2. CASE Go(p, "start") /\ UNCHANGED <<stage, healing, copy, todo>>
    <3>1. "start" \in Idle
      BY DEF Idle, Pcs
    <3> QED
      BY <1>0, <2>2, <3>1, MovedSound
  <2>3. CASE Gone(p)
    BY <1>0, <2>3, MovedSound
  <2> QED
    BY <1>3, <2>1, <2>2, <2>3 DEF ClearLive
<1>4. CASE RefreshRanking(p)
  BY <1>0, <1>1, <1>4, SoundData DEF RefreshRanking
<1>5. CASE SetEnabled(p)
  BY <1>0, <1>1, <1>5 DEF SetEnabled
<1>6. CASE Tick(p)
  <2>1. PICK s \in Strategies : Save(p, "tick", Marked(copy[p], {s}, "live"))
    BY <1>6 DEF Tick
  <2>2. {s} \in SUBSET Strategies /\ "live" \in Entry
    BY DEF Entry
  <2>3. RanksCompleted(Marked(copy[p], {s}, "live"))
    BY <1>0, <2>2, MarkedRanks
  <2> QED
    BY <1>1, <1>6, <2>1, <2>3 DEF Tick
<1> QED
  BY <1>2, <1>3, <1>4, <1>5, <1>6 DEF CommandStep

LEMMA SoundRun ==
  ASSUME TypeOK, AllSound, NEW r \in Runs, RunStep(r)
  PROVE  AllSound'
<1>0. /\ r \in Processes /\ copy[r] \in Data /\ RanksCompleted(copy[r]) /\ Sound(r)
      /\ Running(copy[r]) \in SUBSET Strategies /\ Enabled \in SUBSET Strategies
  BY SoundData, DashboardAssumption DEF Mains, Processes, AllSound, Running
<1>1. "running" \in Entry /\ "error" \in Entry /\ "idle" \in Entry /\ "completed" \in Entry
  BY DEF Entry
<1>2. CASE Bootstrap(r)
  BY <1>0, <1>2, MovedSound DEF Bootstrap
<1>3. CASE Start(r)
  BY <1>0, <1>3, MovedSound DEF Start
<1>4. CASE Begin(r)
  <2>1. /\ Save(r, "begin", Skeleton(copy[r])) /\ todo'[r] = Enabled
        /\ \A q \in Runs \ {r} : todo'[q] = todo[q]
    BY <1>4 DEF Begin, TypeOK
  <2>2. Skeleton(copy[r]).ranked = {}
    BY <1>0, SkeletonData
  <2>3. RanksCompleted(Skeleton(copy[r]))
    BY <2>2 DEF RanksCompleted
  <2> QED
    BY <1>0, <2>1, <2>2, <2>3, SavedSound
<1>5. ASSUME NEW for \in {"halted", "stopped", "last"}, NEW which \in SUBSET Strategies,
             NEW status \in Entry \ {"running"},
             Save(r, for, Marked(copy[r], which \cap Running(copy[r]), status)), UNCHANGED todo,
             Busy(r) \subseteq which
      PROVE  AllSound'
  <2> DEFINE d == Marked(copy[r], which \cap Running(copy[r]), status)
  <2>1. which \cap Running(copy[r]) \in SUBSET Strategies
    OBVIOUS
  <2>2. RanksCompleted(d) /\ Running(d) = Running(copy[r]) \ (which \cap Running(copy[r]))
    BY <1>0, <2>1, MarkedRanks, MarkedData
  <2>3. Running(d) \cap Enabled = {}
    BY <1>5, <2>2 DEF Busy
  <2>4. for \notin {"begin", "begun", "worked"}
    OBVIOUS
  <2> QED
    BY <1>0, <1>5, <2>2, <2>3, <2>4, SavedSound
<1>6. CASE Candles(r)
  <2>1. CASE Go(r, "loop") /\ UNCHANGED <<stage, healing, copy, todo>>
    <3>1. Became(r, "loop", stage[r], healing[r], copy[r]) /\ UNCHANGED todo
      BY <1>0, <2>1, Moves
    <3>2. todo[r] = Enabled /\ copy[r].ranked = {}
      BY <1>0, <1>6 DEF Candles, Sound, Left, Underway
    <3>3. Sound(r)'
      BY <1>0, <3>1, <3>2 DEF Became, Sound, Underway, Left, SavingAt, InSave, Busy, RanksCompleted
    <3> QED
      BY <1>0, <3>1, <3>3, OthersSound DEF AllSound, Became
  <2>2. Strategies \cap Running(copy[r]) = Running(copy[r]) /\ Busy(r) \subseteq Strategies
    BY <1>0 DEF Busy
  <2>3. CASE Save(r, "halted", Stopped(copy[r])) /\ UNCHANGED todo
    BY <1>1, <1>5, <2>2, <2>3 DEF Stopped
  <2>4. CASE Save(r, "last", Marked(copy[r], Running(copy[r]), "error")) /\ UNCHANGED todo
    BY <1>1, <1>5, <2>2, <2>4
  <2> QED
    BY <1>6, <2>1, <2>3, <2>4 DEF Candles
<1>7. CASE Loop(r)
  <2>0. Busy(r) \subseteq todo[r] /\ copy[r].ranked = {} /\ todo[r] \subseteq Enabled
    BY <1>0, <1>7 DEF Loop, Sound, Left, Underway, TypeOK
  <2>1. ASSUME NEW s \in todo[r], Save(r, "begun", Marked(copy[r], {s}, "running")),
               todo' = [todo EXCEPT ![r] = @ \ {s}]
        PROVE  AllSound'
    <3> DEFINE d == Marked(copy[r], {s}, "running")
    <3>1. s \in Enabled /\ {s} \in SUBSET Strategies
      BY <1>0, <2>0
    <3>2. d.ranked = {} /\ Running(d) = Running(copy[r]) \cup {s}
      BY <1>0, <1>1, <2>0, <3>1, MarkedData
    <3>3. RanksCompleted(d)
      BY <3>2 DEF RanksCompleted
    <3>4. todo'[r] = todo[r] \ {s} /\ \A q \in Runs \ {r} : todo'[q] = todo[q]
      BY <2>1 DEF TypeOK
    <3>5. Running(d) \cap Enabled \subseteq todo'[r] \cup {s}
      BY <2>0, <3>2, <3>4 DEF Busy
    <3>6. Save(r, "begun", d)
      BY <2>1
    <3> HIDE DEF d
    <3>7. \E t \in Enabled : Running(d) \cap Enabled \subseteq todo'[r] \cup {t}
      BY <3>1, <3>5
    <3>8. Became(r, "open", "begun", healing[r], d)
      BY <1>0, <3>4, <3>6, Moves
    <3>9. Sound(r)'
      BY <1>0, <3>2, <3>3, <3>7, <3>8, SaveSound
    <3> QED
      BY <1>0, <3>8, <3>9, OthersSound DEF AllSound, Became
  <2>2. ASSUME NEW others \in SUBSET (Strategies \ Enabled),
               Save(r, "stopped", Marked(copy[r], Running(copy[r]) \cap (todo[r] \cup others), "idle")),
               UNCHANGED todo
        PROVE  AllSound'
    <3> DEFINE which == todo[r] \cup others
    <3>1. which \in SUBSET Strategies /\ Busy(r) \subseteq which
      BY <1>0, <2>0
    <3>2. Running(copy[r]) \cap which = which \cap Running(copy[r])
      OBVIOUS
    <3>3. Save(r, "stopped", Marked(copy[r], which \cap Running(copy[r]), "idle"))
      BY <2>2, <3>2
    <3>4. "idle" \in Entry \ {"running"} /\ "stopped" \in {"halted", "stopped", "last"}
      BY <1>1
    <3> HIDE DEF which
    <3> QED
      BY <1>5, <2>2, <3>1, <3>3, <3>4
  <2>3. CASE todo[r] = {} /\ Save(r, "last", Ranked(copy[r])) /\ UNCHANGED todo
    <3>1. Running(Ranked(copy[r])) \cap Enabled = {} /\ RanksCompleted(Ranked(copy[r]))
      BY <1>0, <2>0, <2>3, SoundData DEF Busy
    <3> QED
      BY <1>0, <2>3, <3>1, SavedSound
  <2> QED
    BY <1>7, <2>1, <2>2, <2>3 DEF Loop
<1>8. CASE Work(r)
  <2>1. PICK s \in (Running(copy[r]) \cap Enabled) \ todo[r],
             result \in {"completed", "error", "idle"} :
          Save(r, "worked", Marked(copy[r], {s}, result)) /\ UNCHANGED todo
    BY <1>8 DEF Work
  <2> DEFINE d == Marked(copy[r], {s}, result)
  <2>2. copy[r].ranked = {} /\ \E t \in Enabled : Busy(r) \subseteq todo[r] \cup {t}
    BY <1>0, <1>8 DEF Work, Sound, Left, Underway
  <2>3. Busy(r) \subseteq todo[r] \cup {s}
    BY <2>1, <2>2 DEF Busy
  <2>4. {s} \in SUBSET Strategies /\ result \in Entry /\ result # "running"
    BY <1>0, <2>1 DEF Entry
  <2>5. d.ranked = {} /\ Running(d) = Running(copy[r]) \ {s}
    <3>1. /\ d.ranked = copy[r].ranked
          /\ Running(d) = (IF result = "running" THEN Running(copy[r]) \cup {s}
                                                 ELSE Running(copy[r]) \ {s})
      BY <1>0, <2>4, MarkedData
    <3> QED
      BY <2>2, <2>4, <3>1
  <2>6. RanksCompleted(d) /\ Running(d) \cap Enabled \subseteq todo[r]
    BY <2>3, <2>5 DEF RanksCompleted, Busy
  <2> HIDE DEF d
  <2>7. Save(r, "worked", d) /\ UNCHANGED todo
    BY <2>1 DEF d
  <2>8. Became(r, "open", "worked", healing[r], d)
    BY <1>0, <2>7, Moves
  <2>9. Sound(r)'
    BY <1>0, <2>5, <2>6, <2>7, <2>8, SaveSound
  <2> QED
    BY <1>0, <2>8, <2>9, OthersSound DEF AllSound, Became
<1>9. CASE End(r)
  BY <1>0, <1>9, MovedSound DEF End
<1> QED
  BY <1>2, <1>3, <1>4, <1>6, <1>7, <1>8, <1>9 DEF RunStep

LEMMA SoundStop ==
  ASSUME TypeOK, Rank, AllSound, NEW q \in Stops, StopStep(q)
  PROVE  AllSound'
<1>0. q \in Processes /\ q \notin Runs
  BY DashboardAssumption DEF Processes, Mains
<1>1. ASSUME NEW at \in Idle, NEW d, RanksCompleted(d), copy' = [copy EXCEPT ![q] = d],
             Go(q, at), UNCHANGED <<stage, healing, todo>>
      PROVE  AllSound'
  <2>1. Others(q) /\ pc'[q] = at /\ copy'[q] = d
    BY <1>0, <1>1 DEF Others, Go, TypeOK
  <2>2. Sound(q)'
    BY <1>0, <1>1, <2>1, IdleSound
  <2> QED
    BY <1>0, <2>1, <2>2, OthersSound DEF AllSound
<1>2. ASSUME NEW at \in Idle, Go(q, at), UNCHANGED <<stage, healing, copy, todo>>
      PROVE  AllSound'
  BY <1>0, <1>2, MovedSound
<1>3. {"kill", "read", "over", "patch_open", "patch_write"} \subseteq Idle
  BY DEF Idle, Pcs
<1>4. RanksCompleted(Default)
  BY DefaultData
<1>5. CASE StopRequest(q)
  BY <1>2, <1>3, <1>5 DEF StopRequest
<1>6. CASE StopKill(q)
  <2>1. ASSUME NEW r \in Runs,
               pc' = [pc EXCEPT ![q] = "read", ![r] = "over"],
               stage' = [stage EXCEPT ![r] = "repair"],
               healing' = [healing EXCEPT ![r] = FALSE],
               copy' = [copy EXCEPT ![r] = Default], UNCHANGED todo
        PROVE  AllSound'
    <3>1. r \in Processes /\ r # q
      BY <1>0 DEF Processes, Mains
    <3>2. pc'[r] = "over" /\ copy'[r] = Default /\ pc'[q] = "read" /\ copy'[q] = copy[q]
      BY <1>0, <2>1, <3>1 DEF TypeOK
    <3>3. RanksCompleted(copy[q])
      BY <1>0, SoundData
    <3>4. Sound(r)' /\ Sound(q)'
      BY <1>0, <1>3, <1>4, <3>1, <3>2, <3>3, IdleSound
    <3>5. ASSUME NEW p \in Processes \ {q, r} PROVE Sound(p)'
      <4>1. /\ Sound(p) /\ pc'[p] = pc[p] /\ stage'[p] = stage[p]
            /\ healing'[p] = healing[p] /\ copy'[p] = copy[p] /\ todo' = todo
        BY <2>1, <3>5 DEF TypeOK, AllSound
      <4> QED
        BY <4>1 DEF Sound, Underway, Left, SavingAt, InSave, Busy, RanksCompleted
    <3> QED
      BY <3>4, <3>5 DEF AllSound
  <2>2. CASE Go(q, "read") /\ UNCHANGED <<stage, healing, copy, todo>>
    BY <1>2, <1>3, <2>2
  <2> QED
    BY <1>6, <2>1, <2>2 DEF StopKill
<1>7. CASE StopRead(q)
  <2>1. CASE file \in Data /\ Go(q, "patch_open") /\ copy' = [copy EXCEPT ![q] = Stopped(file)]
    <3>1. Running(file) \in SUBSET Strategies /\ "idle" \in Entry
      BY DEF Running, Entry
    <3>2. RanksCompleted(Stopped(file))
      BY <2>1, <3>1, MarkedRanks DEF Rank, Stopped
    <3> QED
      BY <1>1, <1>3, <1>7, <2>1, <3>2 DEF StopRead
  <2>2. CASE Go(q, "over") /\ UNCHANGED copy
    BY <1>2, <1>3, <1>7, <2>2 DEF StopRead
  <2> QED
    BY <1>7, <2>1, <2>2 DEF StopRead
<1>8. CASE StopOpen(q)
  BY <1>2, <1>3, <1>8 DEF StopOpen
<1>9. CASE StopWrite(q)
  BY <1>1, <1>3, <1>4, <1>9 DEF StopWrite
<1>10. CASE StopDies(q)
  BY <1>1, <1>3, <1>4, <1>10 DEF StopDies
<1> QED
  BY <1>5, <1>6, <1>7, <1>8, <1>9, <1>10 DEF StopStep

LEMMA SoundNext == TypeOK /\ Rank /\ AllSound /\ [Next]_vars => AllSound'
<1> SUFFICES ASSUME TypeOK, Rank, AllSound, [Next]_vars PROVE AllSound'
  OBVIOUS
<1>1. Mains \subseteq Processes /\ Savers \subseteq Processes
  BY DEF Processes, Mains
<1>2. ASSUME NEW p \in Mains, Die(p) PROVE AllSound'
  BY <1>1, <1>2, MovedSound DEF Die
<1>3. ASSUME NEW p \in Savers, NEW command \in Commands, Call(p, command) PROVE AllSound'
  BY <1>1, <1>3, MovedSound DEF Call
<1>4. CASE UNCHANGED vars
  BY <1>4 DEF vars, AllSound, Sound, Underway, Left, SavingAt, InSave, Busy, RanksCompleted
<1> QED
  BY <1>2, <1>3, <1>4, SoundSaveStep, SoundCommand, SoundRun, SoundStop DEF Next

-----------------------------------------------------------------------------
(* Rank is inductive: only a copy is ever written.                         *)

\* The steps that change no file.
LEMMA RankUnchanged ==
  ASSUME Rank, UNCHANGED <<file, tmp>>
  PROVE  Rank'
BY DEF Rank, RanksCompleted

LEMMA RankNext == TypeOK /\ Rank /\ AllSound /\ [Next]_vars => Rank'
<1> SUFFICES ASSUME TypeOK, Rank, AllSound, [Next]_vars PROVE Rank'
  OBVIOUS
<1> USE DEF files
<1>1. ASSUME NEW p \in Mains, SaveStep(p) PROVE Rank'
  <2>0. p \in Processes /\ RanksCompleted(copy[p])
    BY SoundData DEF Processes
  <2>1. CASE LoadDashboard(p)
    BY <2>1, RankUnchanged DEF LoadDashboard
  <2>2. CASE SaveOpen(p)
    BY <2>2, DashboardAssumption DEF SaveOpen, Rank, RanksCompleted
  <2>3. CASE SaveWrite(p)
    <3>1. \A f \in {"tmp", "file"} : \A x \in Written(f, copy[p]) : x \in Data => RanksCompleted(x)
      BY <2>0, DashboardAssumption DEF Written
    <3>2. hand[p] \in {"none", "tmp", "file"}
      BY <2>0 DEF TypeOK
    <3>3. (file' \in Data => RanksCompleted(file')) /\ (tmp' \in Data => RanksCompleted(tmp'))
      BY <2>3, <3>1, <3>2 DEF SaveWrite, Rank
    <3> QED
      BY <3>3 DEF Rank, RanksCompleted
  <2>4. CASE SaveReplace(p)
    BY <2>4, DashboardAssumption DEF SaveReplace, Rank, RanksCompleted
  <2>5. CASE SaveFails(p)
    BY <2>5, RankUnchanged DEF SaveFails
  <2>6. CASE ConfigFails(p)
    BY <2>6, RankUnchanged DEF ConfigFails
  <2> QED
    BY <1>1, <2>1, <2>2, <2>3, <2>4, <2>5, <2>6 DEF SaveStep
<1>2. ASSUME NEW p \in Mains, CommandStep(p) PROVE Rank'
  BY <1>2, RankUnchanged
    DEF CommandStep, Repair, ClearLive, RefreshRanking, SetEnabled, Tick, Unseen
<1>3. ASSUME NEW p \in Mains, Die(p) PROVE Rank'
  BY <1>3, RankUnchanged DEF Die
<1>4. ASSUME NEW p \in Savers, NEW command \in Commands, Call(p, command) PROVE Rank'
  BY <1>4, RankUnchanged DEF Call, Unseen
<1>5. ASSUME NEW r \in Runs, RunStep(r) PROVE Rank'
  BY <1>5, RankUnchanged
    DEF RunStep, Bootstrap, Start, Begin, Candles, Loop, Work, End, Unseen
<1>6. ASSUME NEW q \in Stops, StopStep(q) PROVE Rank'
  <2>0. q \in Processes /\ RanksCompleted(copy[q])
    BY SoundData DEF Processes
  <2>1. CASE StopRequest(q) \/ StopKill(q) \/ StopRead(q) \/ StopDies(q)
    BY <2>1, RankUnchanged DEF StopRequest, StopKill, StopRead, StopDies
  <2>2. CASE StopOpen(q)
    BY <2>2, DashboardAssumption DEF StopOpen, Rank, RanksCompleted
  <2>3. CASE StopWrite(q)
    <3>1. \A x \in Written("file", copy[q]) : x \in Data => RanksCompleted(x)
      BY <2>0, DashboardAssumption DEF Written
    <3>2. (file' \in Data => RanksCompleted(file')) /\ tmp' = tmp
      BY <2>3, <3>1 DEF StopWrite, Rank
    <3> QED
      BY <3>2 DEF Rank, RanksCompleted
  <2> QED
    BY <1>6, <2>1, <2>2, <2>3 DEF StopStep
<1>7. CASE UNCHANGED vars
  BY <1>7, RankUnchanged DEF vars
<1> QED
  BY <1>1, <1>2, <1>3, <1>4, <1>5, <1>6, <1>7 DEF Next

-----------------------------------------------------------------------------
(* Whole is inductive: handles, and one save at a time.                    *)

\* A step of p that writes nothing and is not in the middle of a save after it.
Quiet(p) ==
  /\ pc'[p] \notin {"write", "replace"}
  /\ \A q \in Processes \ {p} : pc'[q] = pc[q] /\ copy'[q] = copy[q] /\ hand'[q] = hand[q]
  /\ hand'[p] = "none"
  /\ UNCHANGED <<file, tmp, mixed, damaged>>

LEMMA QuietWhole ==
  ASSUME TypeOK, Whole, NEW p \in Mains, Quiet(p)
  PROVE  Whole'
<1>0. \A q \in Stops : q \in Processes \ {p}
  BY DashboardAssumption DEF Processes
<1>1. Handles'
  BY <1>0 DEF Whole, Handles, Quiet, Processes, Saving
<1>2. ~damaged' => Orderly'
  <2> SUFFICES ASSUME ~damaged' PROVE Orderly'
    OBVIOUS
  <2>1. Orderly
    BY DEF Whole, Quiet
  <2> QED
    BY <1>0, <2>1 DEF Orderly, Quiet, Processes, Saving
<1>3. FileIsWhole'
  BY <1>0 DEF Whole, FileIsWhole, Quiet
<1> QED
  BY <1>1, <1>2, <1>3 DEF Whole

\* Gone, Load, Save and Go, from where there is no handle.
LEMMA QuietMove ==
  ASSUME TypeOK, Handles, NEW p \in Mains, pc[p] # "write",
         UNCHANGED <<file, tmp, mixed, hand, damaged>>,
         \/ Gone(p)
         \/ \E for : Load(p, for)
         \/ \E for, d : Save(p, for, d)
         \/ \E at : /\ Go(p, at) /\ at \notin {"write", "replace"}
                    /\ \A q \in Processes \ {p} : copy'[q] = copy[q]
  PROVE  Quiet(p)
<1>1. p \in Processes /\ hand[p] = "none"
  BY DEF Processes, Handles
<1> QED
  BY <1>1 DEF Quiet, Gone, Load, Save, Go, TypeOK

LEMMA QuietSteps ==
  ASSUME TypeOK, Handles, NEW p \in Mains,
         \/ CommandStep(p) \/ Die(p) \/ LoadDashboard(p) \/ SaveFails(p) \/ ConfigFails(p)
         \/ p \in Runs /\ RunStep(p)
         \/ \E command \in Commands : Call(p, command)
  PROVE  Quiet(p)
<1> USE DEF files, history, Unseen
<1>0. p \in Processes
  BY DEF Processes
<1>1. CASE CommandStep(p)
  <2>1. CASE Repair(p)
    BY <2>1, QuietMove DEF Repair, AfterRepair
  <2>2. CASE ClearLive(p)
    BY <2>2, QuietMove DEF ClearLive
  <2>3. CASE RefreshRanking(p)
    BY <2>3, QuietMove DEF RefreshRanking
  <2>4. CASE SetEnabled(p)
    BY <2>4, QuietMove DEF SetEnabled
  <2>5. CASE Tick(p)
    BY <2>5, QuietMove DEF Tick
  <2> QED
    BY <1>1, <2>1, <2>2, <2>3, <2>4, <2>5 DEF CommandStep
<1>2. CASE Die(p)
  BY <1>0, <1>2 DEF Die, Gone, Go, Quiet, TypeOK
<1>3. CASE LoadDashboard(p)
  <2> DEFINE d == IF file \in Data THEN file ELSE Default
             heals == file \in Data /\ d.ranked = {} /\ Completed(d) # {}
  <2>1. /\ Go(p, IF heals THEN "open" ELSE "modify")
        /\ copy' = [copy EXCEPT ![p] = IF heals THEN Ranked(d) ELSE d]
        /\ UNCHANGED <<file, tmp, mixed, hand, damaged>> /\ pc[p] = "load"
    BY <1>3 DEF LoadDashboard
  <2> HIDE DEF d, heals
  <2> QED
    BY <1>0, <2>1 DEF Go, Quiet, TypeOK, Handles
<1>4. CASE SaveFails(p)
  <2>1. CASE healing[p]
    BY <1>0, <1>4, <2>1 DEF SaveFails, Go, Quiet, TypeOK, Handles
  <2>2. CASE Gone(p)
    BY <1>4, <2>2, QuietMove DEF SaveFails
  <2>3. CASE Save(p, "last", copy[p])
    BY <1>4, <2>3, QuietMove DEF SaveFails
  <2>4. CASE Go(p, "end") /\ UNCHANGED copy
    BY <1>4, <2>4, QuietMove DEF SaveFails
  <2> QED
    BY <1>4, <2>1, <2>2, <2>3, <2>4 DEF SaveFails
<1>5. CASE p \in Runs /\ RunStep(p)
  <2>1. CASE Bootstrap(p)
    BY <2>1, QuietMove DEF Bootstrap
  <2>2. CASE Start(p)
    BY <2>2, QuietMove DEF Start
  <2>3. CASE Begin(p)
    BY <2>3, QuietMove DEF Begin
  <2>4. CASE Candles(p)
    BY <2>4, QuietMove DEF Candles
  <2>5. CASE Loop(p)
    BY <2>5, QuietMove DEF Loop
  <2>6. CASE Work(p)
    BY <2>6, QuietMove DEF Work
  <2>7. CASE End(p)
    BY <2>7, QuietMove DEF End
  <2> QED
    BY <1>5, <2>1, <2>2, <2>3, <2>4, <2>5, <2>6, <2>7 DEF RunStep
<1>6. CASE \E command \in Commands : Call(p, command)
  BY <1>6, QuietMove DEF Call
<1>7. CASE ConfigFails(p)
  <2>1. CASE copy' = [copy EXCEPT ![p] = Default] /\ UNCHANGED pc
    BY <1>0, <1>7, <2>1 DEF ConfigFails, Quiet, TypeOK, Handles
  <2>2. CASE Gone(p)
    BY <1>7, <2>2, QuietMove DEF ConfigFails
  <2>3. CASE Go(p, "end") /\ UNCHANGED copy
    BY <1>7, <2>3, QuietMove DEF ConfigFails
  <2> QED
    BY <1>7, <2>1, <2>2, <2>3 DEF ConfigFails
<1> QED
  BY <1>1, <1>2, <1>3, <1>4, <1>5, <1>6, <1>7

LEMMA OpenWhole ==
  ASSUME TypeOK, Whole, NEW p \in Mains, SaveOpen(p)
  PROVE  Whole'
<1>0. p \in Processes /\ \A q \in Stops : q \in Processes \ {p}
  BY DashboardAssumption DEF Processes
<1>1. /\ pc' = [pc EXCEPT ![p] = "write"] /\ tmp' = Torn /\ file' = file /\ copy' = copy
      /\ hand' = [hand EXCEPT ![p] = "tmp"] /\ pc[p] = "open"
      /\ mixed' = [mixed EXCEPT !["tmp"] = \E q \in Processes : hand[q] = "tmp"]
      /\ damaged' = (damaged \/ \E q \in Processes \ {p} : Saving(q))
  BY DEF SaveOpen, Go
<1>2. Handles'
  BY <1>0, <1>1 DEF Whole, Handles, Saving, TypeOK, Processes
<1>3. ~damaged' => Orderly'
  <2> SUFFICES ASSUME ~damaged' PROVE Orderly'
    OBVIOUS
  <2>1. ~damaged /\ \A q \in Processes \ {p} : ~Saving(q)
    BY <1>1
  <2>2. Orderly /\ Handles
    BY <2>1 DEF Whole
  <2>3. \A q \in Processes : hand[q] # "tmp"
    BY <1>1, <2>1, <2>2 DEF Handles, Saving, Processes
  <2>4. mixed'["tmp"] = FALSE /\ mixed'["file"] = mixed["file"]
    BY <1>1, <2>3 DEF TypeOK
  <2>5. \A q \in Mains : Saving(q)' => q = p
    BY <1>1, <2>1 DEF Saving, TypeOK, Processes
  <2>6. pc'[p] = "write" /\ hand'[p] = "tmp" /\ \A q \in Stops : hand'[q] = hand[q]
    BY <1>0, <1>1 DEF TypeOK
  <2> QED
    BY <2>2, <2>4, <2>5, <2>6 DEF Orderly, Saving
<1>4. FileIsWhole'
  <2>1. \A q \in Stops : hand'[q] = hand[q]
    BY <1>0, <1>1 DEF TypeOK
  <2>2. damaged => damaged'
    BY <1>1
  <2> QED
    BY <1>1, <2>1, <2>2 DEF Whole, FileIsWhole
<1> QED
  BY <1>2, <1>3, <1>4 DEF Whole

LEMMA WriteWhole ==
  ASSUME TypeOK, Whole, NEW p \in Mains, SaveWrite(p)
  PROVE  Whole'
<1>0. p \in Processes /\ \A q \in Stops : q \in Processes \ {p}
  BY DashboardAssumption DEF Processes
<1>1. /\ pc' = [pc EXCEPT ![p] = "replace"] /\ hand' = [hand EXCEPT ![p] = "none"]
      /\ pc[p] = "write" /\ UNCHANGED <<mixed, copy, damaged>>
  BY DEF SaveWrite, Go
<1>2. Handles'
  BY <1>0, <1>1 DEF Whole, Handles, Saving, TypeOK, Processes
<1>3. ASSUME ~damaged PROVE Orderly' /\ file' = file
  <2>1. Orderly
    BY <1>3 DEF Whole
  <2>2. hand[p] = "tmp" /\ ~mixed["tmp"]
    BY <1>1, <2>1 DEF Orderly
  <2>3. tmp' = copy[p] /\ file' = file
    BY <2>2 DEF SaveWrite, Written
  <2>4. \A q \in Mains : Saving(q) => q = p
    BY <1>1, <2>1 DEF Orderly, Saving
  <2>5. \A q \in Mains : Saving(q)' => q = p
    BY <1>1, <2>4 DEF Saving, TypeOK, Processes
  <2>6. pc'[p] = "replace" /\ \A q \in Stops : hand'[q] = hand[q]
    BY <1>0, <1>1 DEF TypeOK
  <2> QED
    BY <1>1, <2>1, <2>3, <2>5, <2>6 DEF Orderly, Saving
<1>4. FileIsWhole'
  <2>1. \A q \in Stops : hand'[q] = hand[q]
    BY <1>0, <1>1 DEF TypeOK
  <2> QED
    BY <1>1, <1>3, <2>1 DEF Whole, FileIsWhole
<1> QED
  BY <1>1, <1>2, <1>3, <1>4 DEF Whole

LEMMA AfterSaveMoves ==
  ASSUME TypeOK, NEW p \in Mains, AfterSave(p)
  PROVE  /\ pc'[p] \notin {"write", "replace"}
         /\ \A q \in Processes \ {p} : pc'[q] = pc[q] /\ copy'[q] = copy[q]
<1>0. p \in Processes
  BY DEF Processes
<1>1. \/ Gone(p)
      \/ \E for : Load(p, for)
      \/ \E for, d : Save(p, for, d)
      \/ \E at : Go(p, at) /\ at \notin {"write", "replace"} /\ UNCHANGED copy
  BY DEF AfterSave, AfterRepair
<1> QED
  BY <1>0, <1>1 DEF Gone, Load, Save, Go, TypeOK

LEMMA ReplaceWhole ==
  ASSUME TypeOK, Whole, NEW p \in Mains, SaveReplace(p)
  PROVE  Whole'
<1>0. p \in Processes /\ \A q \in Stops : q \in Processes \ {p}
  BY DashboardAssumption DEF Processes
<1>1. /\ pc'[p] \notin {"write", "replace"}
      /\ \A q \in Processes \ {p} : pc'[q] = pc[q] /\ copy'[q] = copy[q]
  BY AfterSaveMoves DEF SaveReplace
<1>2. /\ hand' = [q \in Processes |-> IF hand[q] = "tmp" THEN "file" ELSE "none"]
      /\ file' = tmp /\ pc[p] = "replace"
      /\ damaged' = (damaged /\ (tmp = Torn \/ \E q \in Processes \ {p} : Saving(q)))
  BY DEF SaveReplace
<1>3. Handles'
  BY <1>0, <1>1, <1>2 DEF Whole, Handles, Saving, Processes
<1>4. ASSUME ~damaged' PROVE Orderly' /\ file' # Torn
  <2>1. CASE ~damaged
    <3>1. Orderly
      BY <2>1 DEF Whole
    <3>2. \A q \in Mains \ {p} : ~Saving(q)
      BY <1>2, <3>1 DEF Orderly, Saving
    <3>3. tmp = copy[p] /\ tmp # Torn
      BY <1>0, <1>2, <3>1, DashboardAssumption DEF Orderly, TypeOK
    <3> QED
      BY <1>2, <3>2, <3>3, <1>0, <1>1 DEF Orderly, Saving, Whole, Handles, Processes
  <2>2. CASE damaged
    <3>1. tmp # Torn /\ \A q \in Processes \ {p} : ~Saving(q)
      BY <1>2, <1>4, <2>2
    <3> QED
      BY <1>2, <3>1, <1>0, <1>1 DEF Orderly, Saving, Whole, Handles, Processes
  <2> QED
    BY <2>1, <2>2
<1> QED
  BY <1>3, <1>4 DEF Whole, FileIsWhole

LEMMA StopWhole ==
  ASSUME TypeOK, Whole, NEW q \in Stops, StopStep(q)
  PROVE  Whole'
<1>0. q \in Processes /\ q \notin Mains /\ \A p \in Mains : p \in Processes \ {q}
  BY DashboardAssumption DEF Processes
<1>1. Handles
  BY DEF Whole
\* A step of the request that touches no file.
<1>2. ASSUME NEW at \in {"kill", "read", "patch_open", "over"}, Go(q, at),
             \A p \in Processes \ {q} : copy'[p] = copy[p],
             UNCHANGED <<file, tmp, mixed, hand, damaged>>
      PROVE  Whole'
  <2>1. pc'[q] = at /\ \A p \in Processes \ {q} : pc'[p] = pc[p]
    BY <1>0, <1>2 DEF Go, TypeOK
  <2>2. Handles'
    BY <1>0, <1>1, <1>2, <2>1 DEF Handles, Saving, Processes
  <2>3. Orderly => Orderly'
    BY <1>0, <1>2, <2>1 DEF Orderly, Saving
  <2>4. FileIsWhole'
    BY <1>2 DEF Whole, FileIsWhole
  <2> QED
    BY <1>2, <2>2, <2>3, <2>4 DEF Whole
<1>3. CASE StopRequest(q)
  BY <1>2, <1>3 DEF StopRequest, files, history
<1>4. CASE StopKill(q)
  <2>1. ASSUME NEW r \in Runs,
               pc' = [pc EXCEPT ![q] = "read", ![r] = "over"],
               copy' = [copy EXCEPT ![r] = Default],
               hand' = [hand EXCEPT ![r] = "none"],
               UNCHANGED <<file, tmp, mixed, damaged>>
        PROVE  Whole'
    <3>1. r \in Mains /\ r # q
      BY <1>0 DEF Mains
    <3>2. /\ pc'[q] = "read" /\ pc'[r] = "over" /\ hand'[r] = "none"
          /\ \A p \in Processes \ {q, r} : pc'[p] = pc[p] /\ copy'[p] = copy[p] /\ hand'[p] = hand[p]
          /\ hand'[q] = hand[q]
      BY <1>0, <2>1, <3>1 DEF TypeOK
    <3>3. Handles'
      BY <1>0, <1>1, <3>1, <3>2 DEF Handles, Saving, Processes
    <3>4. \A p \in Stops : hand'[p] = hand[p]
      BY <3>1, <3>2, DashboardAssumption DEF Processes
    <3>5. \A p \in Mains : p # r => pc'[p] = pc[p] /\ copy'[p] = copy[p] /\ hand'[p] = hand[p]
      BY <1>0, <3>2
    <3>6. Orderly => Orderly'
      <4> SUFFICES ASSUME Orderly PROVE Orderly'
        OBVIOUS
      <4>1. \A p \in Mains : pc'[p] \in {"write", "replace"} => p # r
        BY <3>2
      <4>2. /\ \A p, s \in Mains : Saving(p)' /\ Saving(s)' => p = s
            /\ \A p \in Mains : pc'[p] = "write" => hand'[p] = "tmp" /\ ~mixed'["tmp"]
            /\ \A p \in Mains : pc'[p] = "replace" => tmp' = copy'[p]
        BY <2>1, <3>5, <4>1 DEF Orderly, Saving
      <4>3. /\ \A p \in Stops : hand'[p] = "file" => ~mixed'["file"]
            /\ \A p, s \in Stops : hand'[p] = "file" /\ hand'[s] = "file" => p = s
        BY <2>1, <3>4 DEF Orderly
      <4> QED
        BY <4>2, <4>3 DEF Orderly
    <3>7. FileIsWhole'
      BY <2>1, <3>4 DEF Whole, FileIsWhole
    <3> QED
      BY <2>1, <3>3, <3>6, <3>7 DEF Whole
  <2>2. CASE Go(q, "read") /\ UNCHANGED <<copy, hand>> /\ UNCHANGED <<file, tmp, mixed, damaged>>
    BY <1>2, <2>2
  <2> QED
    BY <1>4, <2>1, <2>2 DEF StopKill, files
<1>5. CASE StopRead(q)
  <2>1. \A p \in Processes \ {q} : copy'[p] = copy[p]
    BY <1>5 DEF StopRead, TypeOK
  <2> QED
    BY <1>2, <1>5, <2>1 DEF StopRead, files, history
<1>6. CASE StopOpen(q)
  <2>1. /\ pc' = [pc EXCEPT ![q] = "patch_write"] /\ file' = Torn
        /\ mixed' = [mixed EXCEPT !["file"] = \E p \in Processes : hand[p] = "file"]
        /\ hand' = [hand EXCEPT ![q] = "file"]
        /\ damaged' = (damaged \/ \E p \in Stops : hand[p] = "file")
        /\ UNCHANGED <<tmp, copy>>
    BY <1>6 DEF StopOpen, Go
  <2>2. /\ pc'[q] = "patch_write" /\ hand'[q] = "file"
        /\ \A p \in Processes \ {q} : pc'[p] = pc[p] /\ hand'[p] = hand[p]
    BY <1>0, <2>1 DEF TypeOK
  <2>3. Handles'
    BY <1>0, <1>1, <2>2 DEF Handles, Saving, Processes
  <2>4. ASSUME ~damaged' PROVE Orderly'
    <3>1. ~damaged /\ \A p \in Stops : hand[p] # "file"
      BY <2>1, <2>4
    <3>2. Orderly
      BY <3>1 DEF Whole
    <3>3. \A p \in Mains : hand[p] # "file"
      BY <1>1, <3>2 DEF Handles, Orderly
    <3>4. mixed'["file"] = FALSE /\ mixed'["tmp"] = mixed["tmp"]
      BY <2>1, <3>1, <3>3 DEF TypeOK, Processes
    <3>5. \A p \in Stops : hand'[p] = "file" => p = q
      BY <2>2, <3>1 DEF Processes
    <3> QED
      BY <1>0, <2>1, <2>2, <3>2, <3>4, <3>5 DEF Orderly, Saving
  <2> QED
    BY <2>2, <2>3, <2>4 DEF Whole, FileIsWhole
<1>7. ASSUME pc' = [pc EXCEPT ![q] = "over"], hand' = [hand EXCEPT ![q] = "none"],
             copy' = [copy EXCEPT ![q] = Default], UNCHANGED <<tmp, mixed>>
      PROVE  /\ Handles' /\ (Orderly => Orderly')
             /\ \A p \in Stops \ {q} : hand'[p] = hand[p]
  <2>1. /\ pc'[q] = "over" /\ hand'[q] = "none"
        /\ \A p \in Processes \ {q} : pc'[p] = pc[p] /\ hand'[p] = hand[p] /\ copy'[p] = copy[p]
    BY <1>0, <1>7 DEF TypeOK
  <2>2. Handles'
    BY <1>0, <1>1, <2>1 DEF Handles, Saving, Processes
  <2>3. Orderly => Orderly'
    BY <1>0, <1>7, <2>1 DEF Orderly, Saving, Processes
  <2> QED
    BY <2>1, <2>2, <2>3 DEF Processes
<1>8. CASE StopWrite(q)
  <2>1. /\ Handles' /\ (Orderly => Orderly') /\ damaged' = damaged
        /\ \A p \in Stops \ {q} : hand'[p] = hand[p]
    BY <1>7, <1>8 DEF StopWrite, Go
  <2>2. FileIsWhole'
    <3>1. CASE damaged
      BY <2>1, <3>1 DEF FileIsWhole
    <3>2. CASE ~damaged /\ hand[q] = "file"
      <4>1. ~mixed["file"]
        BY <3>2 DEF Whole, Orderly
      <4>2. file' = copy[q] /\ copy[q] # Torn
        BY <1>0, <1>8, <3>2, <4>1, DashboardAssumption DEF StopWrite, Written, TypeOK
      <4> QED
        BY <4>2 DEF FileIsWhole
    <3>3. CASE hand[q] # "file"
      <4>1. file' = file
        BY <1>8, <3>3 DEF StopWrite
      <4> QED
        BY <2>1, <3>3, <4>1 DEF Whole, FileIsWhole
    <3> QED
      BY <3>1, <3>2, <3>3
  <2> QED
    BY <2>1, <2>2 DEF Whole
<1>9. CASE StopDies(q)
  <2>1. /\ Handles' /\ (Orderly => Orderly') /\ file' = file
        /\ damaged' = (damaged \/ hand[q] = "file")
        /\ \A p \in Stops \ {q} : hand'[p] = hand[p]
    BY <1>7, <1>9 DEF StopDies, Go, files
  <2>2. FileIsWhole'
    BY <2>1 DEF Whole, FileIsWhole
  <2> QED
    BY <2>1, <2>2 DEF Whole
<1> QED
  BY <1>3, <1>4, <1>5, <1>6, <1>8, <1>9 DEF StopStep

LEMMA WholeNext == TypeOK /\ Whole /\ [Next]_vars => Whole'
<1> SUFFICES ASSUME TypeOK, Whole, [Next]_vars PROVE Whole'
  OBVIOUS
<1>1. ASSUME NEW p \in Mains, Quiet(p) PROVE Whole'
  BY <1>1, QuietWhole
<1>2. Handles /\ Runs \subseteq Mains /\ Savers \subseteq Mains
  BY DEF Whole, Mains
<1>3. ASSUME NEW p \in Mains, SaveStep(p) PROVE Whole'
  BY <1>1, <1>2, <1>3, QuietSteps, OpenWhole, WriteWhole, ReplaceWhole DEF SaveStep
<1>4. ASSUME NEW p \in Mains, CommandStep(p) \/ Die(p) PROVE Whole'
  BY <1>1, <1>2, <1>4, QuietSteps
<1>5. ASSUME NEW p \in Savers, NEW command \in Commands, Call(p, command) PROVE Whole'
  BY <1>1, <1>2, <1>5, QuietSteps
<1>6. ASSUME NEW r \in Runs, RunStep(r) PROVE Whole'
  BY <1>1, <1>2, <1>6, QuietSteps
<1>7. CASE UNCHANGED vars
  BY <1>7 DEF vars, Whole, Handles, Orderly, FileIsWhole, Saving
<1> QED
  BY <1>3, <1>4, <1>5, <1>6, <1>7, StopWhole DEF Next

-----------------------------------------------------------------------------
(* Kept is inductive: whoever changes the file makes the other copies old. *)

KeptBy(p) ==
  p \in current /\ (pc[p] = "modify" \/ InSave(p)) /\ file \in Data =>
    Completed(file) \subseteq Completed(copy[p])

LEMMA KeptMeans == Kept <=> \A p \in Savers : KeptBy(p)
BY DEF Kept, KeptBy

\* Everybody else's copy is as it was, or is of no interest any more.
LEMMA OthersKept ==
  ASSUME Kept, NEW p \in Processes,
         \A q \in Savers \ {p} : pc'[q] = pc[q] /\ copy'[q] = copy[q] /\ (q \in current' => q \in current),
         file' = file \/ current' \subseteq {p},
         p \in Savers => KeptBy(p)'
  PROVE  Kept'
<1> SUFFICES ASSUME NEW q \in Savers \ {p} PROVE KeptBy(q)'
  BY KeptMeans DEF Kept, KeptBy, InSave
<1>1. KeptBy(q)
  BY DEF Kept, KeptBy
<1> QED
  BY <1>1 DEF KeptBy, InSave

\* What a saver does to its copy keeps the results that are in it.
LEMMA CommandKeeps ==
  ASSUME TypeOK, NEW p \in Savers, CommandStep(p)
  PROVE  pc[p] = "modify" /\ (InSave(p)' => Completed(copy[p]) \subseteq Completed(copy'[p]))
         /\ pc'[p] # "modify"
<1>0. p \in Processes /\ p \in Mains /\ copy[p] \in Data
  BY DEF Processes, Mains, TypeOK
<1>1. Running(copy[p]) \cap Completed(copy[p]) = {}
      /\ Running(copy[p]) \in SUBSET Strategies /\ Live(copy[p]) \in SUBSET Strategies
      /\ Live(copy[p]) \subseteq Completed(copy[p])
  BY DEF Running, Completed, Live
<1>2. "error" \in Entry /\ "completed" \in Entry /\ "live" \in Entry
  BY DEF Entry
<1>3. ASSUME NEW for, NEW d, Save(p, for, d), Completed(copy[p]) \subseteq Completed(d)
      PROVE  Completed(copy[p]) \subseteq Completed(copy'[p]) /\ pc'[p] = "open"
  BY <1>0, <1>3 DEF Save, Go, TypeOK
<1>4. Gone(p) => pc'[p] = "over"
  BY <1>0, Moves DEF Became
<1>5. \A for : Load(p, for) => pc'[p] = "load"
  BY <1>0, Moves DEF Became
<1>6. CASE Repair(p)
  <2>1. ASSUME NEW found \in SUBSET Oversized
        PROVE  Completed(copy[p]) \subseteq
                 Completed(Marked(copy[p], found \cap Running(copy[p]), "error"))
    <3>1. found \cap Running(copy[p]) \in SUBSET Strategies
      BY <1>1
    <3>2. Completed(Marked(copy[p], found \cap Running(copy[p]), "error"))
            = Completed(copy[p]) \ (found \cap Running(copy[p]))
      BY <1>0, <1>2, <3>1, MarkedData
    <3> QED
      BY <1>1, <3>2
  <2> QED
    BY <1>3, <1>5, <1>6, <2>1 DEF Repair, AfterRepair, InSave
<1>7. CASE ClearLive(p)
  <2>1. Completed(copy[p]) \subseteq Completed(Marked(copy[p], Live(copy[p]), "completed"))
    <3>1. Completed(Marked(copy[p], Live(copy[p]), "completed")) = Completed(copy[p]) \cup Live(copy[p])
      BY <1>0, <1>1, <1>2, MarkedData
    <3> QED
      BY <3>1
  <2>2. p \notin Runs
    BY DashboardAssumption
  <2> QED
    BY <1>3, <1>4, <1>7, <2>1, <2>2 DEF ClearLive, InSave
<1>8. CASE RefreshRanking(p)
  BY <1>0, <1>3, <1>8, RankedData DEF RefreshRanking
<1>9. CASE SetEnabled(p)
  BY <1>3, <1>9 DEF SetEnabled
<1>10. CASE Tick(p)
  <2>1. PICK s \in Strategies : Save(p, "tick", Marked(copy[p], {s}, "live"))
    BY <1>10 DEF Tick
  <2>2. Completed(Marked(copy[p], {s}, "live")) = Completed(copy[p]) \cup {s}
    <3>1. {s} \in SUBSET Strategies
      OBVIOUS
    <3> QED
      BY <1>0, <1>2, <3>1, MarkedData
  <2> QED
    BY <1>3, <1>10, <2>1, <2>2 DEF Tick
<1> QED
  BY <1>6, <1>7, <1>8, <1>9, <1>10 DEF CommandStep

LEMMA KeptNext == TypeOK /\ Whole /\ Kept /\ [Next]_vars => Kept'
<1> SUFFICES ASSUME TypeOK, Whole, Kept, [Next]_vars PROVE Kept'
  OBVIOUS
<1>0. /\ Handles /\ Mains \subseteq Processes /\ Savers \subseteq Mains /\ Runs \subseteq Mains
      /\ Runs \cap Savers = {}
  BY DashboardAssumption DEF Whole, Mains, Processes
<1>1. ASSUME NEW p \in Mains, Quiet(p), current' \subseteq current \cup {p},
             p \in Savers => KeptBy(p)'
      PROVE  Kept'
  BY <1>0, <1>1, OthersKept DEF Quiet
<1>2. ASSUME NEW p \in Mains, SaveStep(p) PROVE Kept'
  <2>0. p \in Processes /\ copy[p] \in Data /\ (p \in Savers => KeptBy(p))
    BY <1>0, KeptMeans DEF TypeOK
  <2>1. CASE LoadDashboard(p)
    <3>1. Quiet(p) /\ current' \subseteq current \cup {p}
      BY <1>0, <2>1, QuietSteps DEF LoadDashboard
    <3>2. file \in Data =>
            (Completed(copy'[p]) = Completed(file) \/ Completed(copy'[p]) = Completed(Ranked(file)))
      BY <2>0, <2>1 DEF LoadDashboard, TypeOK
    <3>3. KeptBy(p)'
      BY <3>1, <3>2, RankedData DEF KeptBy, Quiet
    <3> QED
      BY <1>1, <3>1, <3>3
  <2>2. CASE SaveOpen(p) \/ SaveWrite(p)
    <3>1. /\ \A q \in Savers \ {p} : pc'[q] = pc[q] /\ copy'[q] = copy[q]
          /\ copy'[p] = copy[p] /\ InSave(p)
      BY <1>0, <2>0, <2>2 DEF SaveOpen, SaveWrite, Go, InSave, TypeOK
    <3>2. hand[p] \in {"none", "tmp", "file"}
      BY <2>0 DEF TypeOK
    <3>3. UNCHANGED <<file, current>> \/ current' = {}
      BY <2>2, <3>2 DEF SaveOpen, SaveWrite
    <3>4. p \in Savers => KeptBy(p)'
      BY <2>0, <3>1, <3>3 DEF KeptBy
    <3> QED
      BY <2>0, <3>1, <3>3, <3>4, OthersKept
  <2>3. CASE SaveReplace(p)
    <3>1. \A q \in Savers \ {p} : pc'[q] = pc[q] /\ copy'[q] = copy[q]
      BY <1>0, <2>3, AfterSaveMoves DEF SaveReplace
    <3>2. /\ file' = tmp /\ AfterSave(p)
          /\ current' \subseteq current /\ current' \subseteq {p}
          /\ p \in current' => tmp = copy[p]
      BY <2>3 DEF SaveReplace
    <3>3. \/ pc'[p] \in {"over", "load", "start", "candles", "work", "loop", "end"}
          \/ Completed(copy'[p]) = Completed(copy[p])
      <4>1. CASE healing[p]
        BY <3>2, <4>1 DEF AfterSave
      <4>2. Gone(p) => pc'[p] = "over"
        BY <2>0, Moves DEF Became
      <4>3. \A for : Load(p, for) => pc'[p] = "load"
        BY <2>0, Moves DEF Became
      <4>4. \A for, d : Save(p, for, d) => copy'[p] = d
        BY <2>0 DEF Save, TypeOK
      <4>5. \A at : Go(p, at) => pc'[p] = at
        BY <2>0 DEF Go, TypeOK
      <4>6. \/ healing[p]
            \/ Gone(p)
            \/ \E for : Load(p, for)
            \/ Save(p, "last", Ranked(copy[p])) \/ Save(p, "last", copy[p])
            \/ \E at \in {"start", "candles", "work", "loop", "end"} : Go(p, at)
        BY <3>2 DEF AfterSave, AfterRepair
      <4> QED
        BY <2>0, <4>1, <4>2, <4>3, <4>4, <4>5, <4>6, RankedData
    <3>4. p \in Savers => KeptBy(p)'
      BY <3>2, <3>3 DEF KeptBy, InSave
    <3> QED
      BY <2>0, <3>1, <3>2, <3>4, OthersKept
  <2>4. CASE SaveFails(p)
    <3>1. Quiet(p) /\ current' = current \ {p}
      BY <1>0, <2>4, QuietSteps DEF SaveFails
    <3> QED
      BY <1>1, <3>1 DEF KeptBy
  <2>5. CASE ConfigFails(p)
    <3>1. Quiet(p) /\ current' = current \ {p}
      BY <1>0, <2>5, QuietSteps DEF ConfigFails
    <3> QED
      BY <1>1, <3>1 DEF KeptBy
  <2> QED
    BY <1>2, <2>1, <2>2, <2>3, <2>4, <2>5 DEF SaveStep
<1>3. ASSUME NEW p \in Mains, CommandStep(p) PROVE Kept'
  <2>1. Quiet(p) /\ current' = current
    BY <1>0, <1>3, QuietSteps
      DEF CommandStep, Repair, ClearLive, RefreshRanking, SetEnabled, Tick, Unseen, history
  <2>2. ASSUME p \in Savers PROVE KeptBy(p)'
    <3>1. KeptBy(p)
      BY <2>2, KeptMeans
    <3> QED
      BY <1>3, <2>1, <2>2, <3>1, CommandKeeps DEF KeptBy, Quiet
  <2> QED
    BY <1>1, <2>1, <2>2
<1>4. ASSUME NEW p \in Mains, Die(p) PROVE Kept'
  <2>1. Quiet(p) /\ current' = current \ {p}
    BY <1>0, <1>4, QuietSteps DEF Die
  <2> QED
    BY <1>1, <2>1 DEF KeptBy
<1>5. ASSUME NEW p \in Savers, NEW command \in Commands, Call(p, command) PROVE Kept'
  <2>1. Quiet(p) /\ current' = current /\ p \in Mains /\ p \in Processes
    BY <1>0, <1>5, QuietSteps DEF Call, Unseen, history
  <2>2. pc'[p] = "load"
    BY <1>5, <2>1 DEF Call, Load, Go, TypeOK
  <2> QED
    BY <1>1, <2>1, <2>2 DEF KeptBy, InSave
<1>6. ASSUME NEW r \in Runs, RunStep(r) PROVE Kept'
  <2>1. Quiet(r) /\ current' \subseteq current /\ r \notin Savers
    BY <1>0, <1>6, QuietSteps
      DEF RunStep, Bootstrap, Start, Begin, Candles, Loop, Work, End, Unseen, history
  <2> QED
    BY <1>0, <1>1, <2>1
<1>7. ASSUME NEW q \in Stops, StopStep(q) PROVE Kept'
  <2>0. q \in Processes /\ q \notin Savers /\ Savers \subseteq Processes \ {q}
    BY <1>0, DashboardAssumption DEF Processes
  <2>1. /\ \A p \in Savers : pc'[p] = pc[p] /\ copy'[p] = copy[p]
        /\ (UNCHANGED file /\ current' \subseteq current) \/ current' = {}
    <3>1. CASE StopKill(q)
      BY <1>0, <2>0, <3>1 DEF StopKill, Go, TypeOK, files
    <3>2. CASE StopRequest(q) \/ StopRead(q) \/ StopDies(q)
      BY <2>0, <3>2 DEF StopRequest, StopRead, StopDies, Go, TypeOK, files, history
    <3>3. CASE StopOpen(q) \/ StopWrite(q)
      BY <2>0, <3>3 DEF StopOpen, StopWrite, Go, TypeOK
    <3> QED
      BY <1>7, <3>1, <3>2, <3>3 DEF StopStep
  <2> QED
    BY <2>0, <2>1, OthersKept
<1>8. CASE UNCHANGED vars
  BY <1>8 DEF vars, Kept, InSave
<1> QED
  BY <1>2, <1>3, <1>4, <1>5, <1>6, <1>7, <1>8 DEF Next

-----------------------------------------------------------------------------
(* The theorems.                                                           *)

LEMMA InvInit == Init => IInv
<1> SUFFICES ASSUME Init PROVE IInv
  OBVIOUS
<1>1. TypeOK
  BY TypeInit
<1>2. Rank
  BY DashboardAssumption DEF Init, Rank, RanksCompleted
<1>3. \A p \in Processes : Sound(p)
  BY DefaultData DEF Init, Sound, Underway, Left, SavingAt, InSave, RanksCompleted
<1>4. Whole
  BY DashboardAssumption
    DEF Init, Whole, Handles, Orderly, FileIsWhole, Saving, Mains, Processes
<1>5. Kept
  BY DEF Init, Kept
<1> QED
  BY <1>1, <1>2, <1>3, <1>4, <1>5 DEF IInv

LEMMA InvNext == IInv /\ [Next]_vars => IInv'
BY TypeNext, RankNext, SoundNext, WholeNext, KeptNext DEF IInv, AllSound

\* InductiveInvariant: what holds of every process, file and copy at any time.
THEOREM InductiveInvariant == Spec => []IInv
BY InvInit, InvNext, PTL DEF Spec

(* RankingIsSound: whoever wrote the dashboard last, from whatever copy, ranks *)
(* no strategy that it does not show with a result.                            *)
THEOREM RankingIsSound == Spec => []RankedAreCompleted
<1>1. IInv => RankedAreCompleted
  BY DEF IInv, Rank, RankedAreCompleted, RanksCompleted
<1> QED
  BY <1>1, InductiveInvariant, PTL

(* DashboardIsWhole: the dashboard is unreadable only while a stop request     *)
(* patches it, after two saves have crossed or after a patch was cut short.    *)
THEOREM DashboardIsWhole == Spec => []FileIsWhole
<1>1. IInv => FileIsWhole
  BY DEF IInv, Whole
<1> QED
  BY <1>1, InductiveInvariant, PTL

(* RunsFinish: a run that ends after its last save leaves no enabled strategy  *)
(* "running", for any number of strategies and whatever stopped it.            *)
THEOREM RunsFinish == Spec => []NothingLeftRunning
<1>1. IInv => NothingLeftRunning
  BY DEF IInv, Sound, Left, Busy, NothingLeftRunning, Processes, Mains
<1> QED
  BY <1>1, InductiveInvariant, PTL

(* CommandsKeepResults: a command whose copy is of the present file loses no   *)
(* result with its save, unless two saves have crossed.                        *)
THEOREM CommandsKeepResults == Spec => ResultsAreKept
<1>1. ASSUME IInv, [Next]_vars, NEW p \in Savers \cap current,
             pc[p] = "replace", pc'[p] # "replace", file \in Data, ~damaged
      PROVE  file' \in Data /\ Completed(file) \subseteq Completed(file')
  <2>0. /\ TypeOK /\ Handles /\ Orderly /\ KeptBy(p) /\ p \in Mains /\ p \in Processes
        /\ Runs \subseteq Mains /\ Savers \subseteq Mains /\ p \notin Runs /\ p \notin Stops
    BY <1>1, KeptMeans, DashboardAssumption DEF IInv, Whole, Mains, Processes
  <2>1. ASSUME NEW x \in Mains, Quiet(x) PROVE file' = file
    BY <2>1 DEF Quiet
  <2>2. ASSUME NEW x \in Mains, SaveOpen(x) PROVE file' = file
    BY <2>2 DEF SaveOpen
  <2>3. ASSUME NEW x \in Mains, SaveWrite(x) PROVE FALSE
    BY <1>1, <2>0, <2>3 DEF SaveWrite, Go, TypeOK
  <2>4. ASSUME NEW x \in Mains, SaveReplace(x)
        PROVE  file' \in Data /\ Completed(file) \subseteq Completed(file')
    <3>1. x = p
      BY <1>1, <2>0, <2>4, AfterSaveMoves DEF SaveReplace
    <3>2. file' = copy[p]
      BY <1>1, <2>0, <2>4, <3>1 DEF SaveReplace, Orderly
    <3> QED
      BY <1>1, <2>0, <3>2 DEF TypeOK, KeptBy, InSave
  <2>5. ASSUME NEW q \in Stops, StopStep(q) PROVE FALSE
    BY <1>1, <2>0, <2>5
      DEF StopStep, StopRequest, StopKill, StopRead, StopOpen, StopWrite, StopDies, Go, TypeOK
  <2>6. CASE UNCHANGED vars
    BY <1>1, <2>6 DEF vars
  <2>7. file' = file => file' \in Data /\ Completed(file) \subseteq Completed(file')
    BY <1>1
  <2> QED
    BY <1>1, <2>0, <2>1, <2>2, <2>3, <2>4, <2>5, <2>6, <2>7, QuietSteps DEF Next, SaveStep
<1>2. IInv /\ [Next]_vars =>
        [\A p \in Savers \cap current :
           /\ pc[p] = "replace" /\ pc'[p] # "replace"
           /\ file \in Data /\ ~damaged
           => file' \in Data /\ Completed(file) \subseteq Completed(file')]_vars
  BY <1>1
<1> QED
  BY <1>2, InductiveInvariant, PTL DEF Spec, ResultsAreKept

=============================================================================
