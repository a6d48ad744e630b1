------------------------------- MODULE Dashboard -------------------------------
(***************************************************************************)
(* runtime-dashboard.json: the bootstrap process writes it after every     *)
(* step of a run, other main.py commands load it, change it and save all   *)
(* of it, and POST /api/stop patches it in place.  A save writes           *)
(* runtime-dashboard.tmp, the same for every process, and then replaces    *)
(* the dashboard with it.  Every open, close, replace and load is a step.  *)
(*                                                                         *)
(* A dashboard is what it says of each strategy, and which ones it ranks;  *)
(* "live" is a completed entry with live_active.  A process is one run, one *)
(* command or one stop request.  One run at a time; RunControl has the     *)
(* other files.                                                            *)
(***************************************************************************)
EXTENDS Naturals

CONSTANTS
  Strategies,
  Enabled,         \* those that a run works on
  Oversized,       \* those that a dashboard may show with too large an order
  Runs,            \* the bootstrap processes
  Savers,          \* the processes of other commands
  Stops,           \* the requests of the stop route
  Earlier,         \* the dashboards that may be there already
  None,            \* no file
  Torn             \* a file that is not JSON: truncated, or written by two

Entry == {"idle", "running", "completed", "live", "error"}
Data == [entry : [Strategies -> Entry], ranked : SUBSET Strategies]

Default == [entry |-> [s \in Strategies |-> "idle"], ranked |-> {}]

Running(d) == {s \in Strategies : d.entry[s] = "running"}
Completed(d) == {s \in Strategies : d.entry[s] \in {"completed", "live"}}
Live(d) == {s \in Strategies : d.entry[s] = "live"}

\* The processes of main.py, and with the stop requests all that write.
Mains == Runs \cup Savers
Processes == Mains \cup Stops

ASSUME DashboardAssumption ==
  /\ Enabled \subseteq Strategies /\ Oversized \subseteq Strategies
  /\ Runs \cap Savers = {} /\ Mains \cap Stops = {}
  /\ Earlier \subseteq {d \in Data : d.ranked \subseteq Completed(d)} \cup {None}
  /\ None \notin Data /\ Torn \notin Data /\ None # Torn

VARIABLES
  file,            \* runtime-dashboard.json
  tmp,             \* runtime-dashboard.tmp
  mixed,           \* is the inode of tmp, of file open in two processes?
  hand,            \* the file on which each process has an open handle
  pc,              \* where each process is
  stage,           \* who called load_dashboard or save_dashboard
  healing,         \* it is the save inside load_dashboard
  copy,            \* its dashboard in memory
  todo,            \* enabled strategies that each run has not begun
  stop,            \* does backtest.stop exist?
  damaged,         \* history: two saves have crossed, or a patch was cut short
  current          \* history: processes whose copy is of the present file

files == <<file, tmp, mixed>>
locals == <<pc, stage, healing, copy, todo>>
history == <<damaged, current>>
vars == <<file, tmp, mixed, hand, pc, stage, healing, copy, todo, stop, damaged, current>>

Pcs == {"new", "over",
        "load", "modify", "open", "write", "replace",       \* load and save
        "start", "candles", "loop", "work", "end",          \* a run
        "kill", "read", "patch_open", "patch_write"}        \* a stop request

\* The commands of the savers, and the points of a run that load or save.
Commands == {"rank", "clear", "enable", "tick"}
Stages == Commands \cup {"repair", "begin", "begun", "worked", "halted", "stopped", "last"}

TypeOK ==
  /\ file \in Data \cup {Torn, None}
  /\ tmp \in Data \cup {Torn, None}
  /\ mixed \in [{"tmp", "file"} -> BOOLEAN]
  /\ hand \in [Processes -> {"none", "tmp", "file"}]
  /\ pc \in [Processes -> Pcs]
  /\ stage \in [Processes -> Stages]
  /\ healing \in [Processes -> BOOLEAN]
  /\ copy \in [Processes -> Data]
  /\ todo \in [Runs -> SUBSET Enabled]
  /\ stop \in BOOLEAN
  /\ damaged \in BOOLEAN
  /\ current \subseteq Processes

Init ==
  /\ file \in Earlier
  /\ tmp = None
  /\ mixed = [f \in {"tmp", "file"} |-> FALSE]
  /\ hand = [p \in Processes |-> "none"]
  /\ pc = [p \in Processes |-> "new"]
  /\ stage = [p \in Processes |-> "repair"]
  /\ healing = [p \in Processes |-> FALSE]
  /\ copy = [p \in Processes |-> Default]
  /\ todo = [r \in Runs |-> {}]
  /\ stop = FALSE
  /\ damaged = FALSE
  /\ current = {}

-----------------------------------------------------------------------------
(* What is done to a dashboard in memory.                                  *)

Marked(d, which, status) ==
  [d EXCEPT !.entry = [s \in Strategies |-> IF s \in which THEN status ELSE d.entry[s]]]

\* update_dashboard_ranking: every completed strategy is ranked, its metrics being
\* complete.
Ranked(d) == [d EXCEPT !.ranked = Completed(d)]

\* Mutant: the ranking of the last run is kept.
SkeletonKeepsRanking(d) == Marked(d, Enabled, "running")

\* The dashboard a run begins with: the enabled strategies run, the others keep
\* what they have, nothing is ranked.
Skeleton(d) == [Marked(d, Enabled, "running") EXCEPT !.ranked = {}]

\* mark_strategies_stopped, and markDashboardStopped in the stop route.
Stopped(d) == Marked(d, Running(d), "idle")

-----------------------------------------------------------------------------
(* Steps that commands share.                                              *)

Saving(p) == pc[p] \in {"write", "replace"}
Alive(p) == pc[p] \notin {"new", "over"}

Go(p, to) == pc' = [pc EXCEPT ![p] = to]

\* The process is gone with all it had in memory.
Gone(p) ==
  /\ Go(p, "over")
  /\ stage' = [stage EXCEPT ![p] = "repair"]
  /\ healing' = [healing EXCEPT ![p] = FALSE]
  /\ copy' = [copy EXCEPT ![p] = Default]
  /\ UNCHANGED todo

\* It loads the dashboard for the given purpose.
Load(p, for) ==
  /\ Go(p, "load")
  /\ stage' = [stage EXCEPT ![p] = for]
  /\ UNCHANGED <<healing, copy, todo>>

\* It has changed its copy and saves it.
Save(p, for, d) ==
  /\ Go(p, "open")
  /\ stage' = [stage EXCEPT ![p] = for]
  /\ copy' = [copy EXCEPT ![p] = d]
  /\ UNCHANGED healing

\* What a process does in memory.
Unseen == UNCHANGED <<files, hand, stop, history>>

\* load_dashboard: no file and an unreadable one give the default dashboard; one
\* that has results and no ranking is ranked and saved at once.
LoadDashboard(p) ==
  /\ pc[p] = "load"
  /\ LET d == IF file \in Data THEN file ELSE Default
         heals == file \in Data /\ d.ranked = {} /\ Completed(d) # {}
     IN  /\ Go(p, IF heals THEN "open" ELSE "modify")
         /\ healing' = [healing EXCEPT ![p] = heals]
         /\ copy' = [copy EXCEPT ![p] = IF heals THEN Ranked(d) ELSE d]
         /\ current' = IF file \in Data THEN current \cup {p} ELSE current \ {p}
  /\ UNCHANGED <<files, hand, stage, todo, stop, damaged>>

\* The last thing load_dashboard reads is the configuration.  When another process
\* is writing that file, the except clause gives the default dashboard, whatever
\* has been loaded; it needs the configuration, too, and when it is still not
\* readable the command ends, a run that has begun with its finally clause.
ConfigFails(p) ==
  /\ pc[p] = "modify"
  /\ \/ copy' = [copy EXCEPT ![p] = Default] /\ UNCHANGED <<pc, stage, healing, todo>>
     \/ stage[p] = "begin" /\ Go(p, "end") /\ UNCHANGED <<stage, healing, copy, todo>>
     \/ stage[p] # "begin" /\ Gone(p)
  /\ current' = current \ {p}
  /\ UNCHANGED <<files, hand, stop, damaged>>

\* Mutant: save_dashboard without a temporary file.
SaveInPlace(p) ==
  /\ pc[p] = "open"
  /\ Go(p, "write")
  /\ file' = Torn
  /\ mixed' = [mixed EXCEPT !["file"] = \E q \in Processes : hand[q] = "file"]
  /\ hand' = [hand EXCEPT ![p] = "file"]
  /\ damaged' = (damaged \/ \E q \in Processes \ {p} : Saving(q))
  /\ current' = {}
  /\ UNCHANGED <<tmp, stage, healing, copy, todo, stop>>

\* save_dashboard: open truncates the tmp file, or creates it...
SaveOpen(p) ==
  /\ pc[p] = "open"
  /\ Go(p, "write")
  /\ tmp' = Torn
  /\ mixed' = [mixed EXCEPT !["tmp"] = \E q \in Processes : hand[q] = "tmp"]
  /\ hand' = [hand EXCEPT ![p] = "tmp"]
  /\ damaged' = (damaged \/ \E q \in Processes \ {p} : Saving(q))
  /\ UNCHANGED <<file, stage, healing, copy, todo, stop, current>>

\* What a write leaves in a file that another process may be writing, too.
Written(f, d) == IF mixed[f] THEN {d, Torn} ELSE {d}

\* ... the dump is written and closed, wherever that inode is by now...
SaveWrite(p) ==
  /\ pc[p] = "write"
  /\ Go(p, "replace")
  /\ CASE hand[p] = "tmp" -> tmp' \in Written("tmp", copy[p]) /\ UNCHANGED <<file, current>>
       [] hand[p] = "file" -> /\ file' \in Written("file", copy[p])
                              /\ current' = {}
                              /\ UNCHANGED tmp
       [] hand[p] = "none" -> UNCHANGED <<file, tmp, current>>
  /\ hand' = [hand EXCEPT ![p] = "none"]
  /\ UNCHANGED <<mixed, stage, healing, copy, todo, stop, damaged>>

\* The command itself follows repair_runtime_dashboard.
AfterRepair(p) == Load(p, IF p \in Runs THEN "clear" ELSE "rank")

\* What follows a save.
AfterSave(p) ==
  CASE healing[p] ->
         /\ Go(p, "modify") /\ healing' = [healing EXCEPT ![p] = FALSE]
         /\ UNCHANGED <<stage, copy, todo>>
    [] ~healing[p] /\ stage[p] = "repair" -> AfterRepair(p)
    [] ~healing[p] /\ stage[p] = "stopped" -> Save(p, "last", Ranked(copy[p])) /\ UNCHANGED todo
    [] ~healing[p] /\ stage[p] = "begin" /\ Enabled = {} ->
         Save(p, "last", copy[p]) /\ UNCHANGED todo
    [] ~healing[p] /\ p \in Savers /\ stage[p] # "repair" -> Gone(p)
    [] OTHER ->
         /\ Go(p, CASE stage[p] = "clear" -> "start"
                    [] stage[p] = "begin" -> "candles"
                    [] stage[p] = "begun" -> "work"
                    [] stage[p] = "worked" -> "loop"
                    [] OTHER -> "end")
         /\ UNCHANGED <<stage, healing, copy, todo>>

\* ... and os.replace makes it the dashboard.
SaveReplace(p) ==
  /\ pc[p] = "replace" /\ tmp # None
  /\ file' = tmp /\ tmp' = None
  /\ mixed' = [f \in {"tmp", "file"} |-> f = "file" /\ mixed["tmp"]]
  /\ hand' = [q \in Processes |-> IF hand[q] = "tmp" THEN "file" ELSE "none"]
  /\ damaged' = (damaged /\ (tmp = Torn \/ \E q \in Processes \ {p} : Saving(q)))
  /\ current' = {q \in current \cap {p} : tmp = copy[p]}
  /\ AfterSave(p)
  /\ UNCHANGED stop

\* Another process has moved the tmp file: load_dashboard answers its exception
\* with the default dashboard, a run goes to its finally clause, after a second
\* save if it was loading candles, and anybody else ends.
SaveFails(p) ==
  /\ pc[p] = "replace" /\ tmp = None
  /\ CASE healing[p] ->
            /\ Go(p, "modify") /\ healing' = [healing EXCEPT ![p] = FALSE]
            /\ copy' = [copy EXCEPT ![p] = Default]
            /\ UNCHANGED <<stage, todo>>
       [] ~healing[p] /\ (p \in Savers \/ stage[p] \in {"repair", "clear"}) -> Gone(p)
       [] ~healing[p] /\ stage[p] = "halted" -> Save(p, "last", copy[p]) /\ UNCHANGED todo
       [] OTHER -> Go(p, "end") /\ UNCHANGED <<stage, healing, copy, todo>>
  /\ current' = current \ {p}
  /\ UNCHANGED <<files, hand, stop, damaged>>

\* The process dies; what it has not written is lost.
Die(p) ==
  /\ Alive(p)
  /\ Gone(p)
  /\ hand' = [hand EXCEPT ![p] = "none"]
  /\ current' = current \ {p}
  /\ UNCHANGED <<files, stop, damaged>>

-----------------------------------------------------------------------------
(* Commands.                                                               *)

\* refresh-ranking repairs the dashboard first; set-strategy-enabled, the Live
\* tick and what clears Live, prepare-bootstrap included, do not.
Call(p, command) ==
  /\ pc[p] = "new"
  /\ Load(p, IF command = "rank" THEN "repair" ELSE command)
  /\ Unseen

\* repair_runtime_dashboard: nothing is to be saved, or some order is too large,
\* and of the strategies with such an order those that run are in error.  The
\* default dashboard has the order sizes of the configuration, which are valid.
Repair(p) ==
  /\ pc[p] = "modify" /\ stage[p] = "repair"
  /\ \/ AfterRepair(p)
     \/ /\ copy[p] # Default
        /\ \E found \in SUBSET Oversized \ {{}} :
             Save(p, "repair", Marked(copy[p], found \cap Running(copy[p]), "error"))
        /\ UNCHANGED todo
  /\ Unseen

\* clear_live_run: only a dashboard with a live card is saved.
ClearLive(p) ==
  /\ pc[p] = "modify" /\ stage[p] = "clear"
  /\ \/ /\ Live(copy[p]) # {}
        /\ Save(p, "clear", Marked(copy[p], Live(copy[p]), "completed"))
        /\ UNCHANGED todo
     \/ /\ Live(copy[p]) = {} /\ p \in Runs
        /\ Go(p, "start")
        /\ UNCHANGED <<stage, healing, copy, todo>>
     \/ /\ Live(copy[p]) = {} /\ p \in Savers
        /\ Gone(p)
  /\ Unseen

RefreshRanking(p) ==
  /\ pc[p] = "modify" /\ stage[p] = "rank"
  /\ Save(p, "rank", Ranked(copy[p]))
  /\ UNCHANGED todo /\ Unseen

\* set_strategy_enabled changes a parameter of a strategy that the dashboard has;
\* parameters are not modelled.
SetEnabled(p) ==
  /\ pc[p] = "modify" /\ stage[p] = "enable"
  /\ Save(p, "enable", copy[p])
  /\ UNCHANGED todo /\ Unseen

\* Mutant: the tick builds a dashboard of its own.
TickAnew(p) ==
  /\ pc[p] = "modify" /\ stage[p] = "tick"
  /\ \E s \in Strategies : Save(p, "tick", Marked(Default, {s}, "live"))
  /\ UNCHANGED todo /\ Unseen

\* live_run_tick_command: the result of the live strategy, not ranked anew.
Tick(p) ==
  /\ pc[p] = "modify" /\ stage[p] = "tick"
  /\ \E s \in Strategies : Save(p, "tick", Marked(copy[p], {s}, "live"))
  /\ UNCHANGED todo /\ Unseen

-----------------------------------------------------------------------------
(* A run: main.py bootstrap.                                               *)

Bootstrap(r) ==
  /\ pc[r] = "new"
  /\ \A q \in Runs : ~Alive(q)
  /\ Load(r, "repair")
  /\ Unseen

\* clear_stop_request and write_run_pid.
Start(r) ==
  /\ pc[r] = "start"
  /\ Load(r, "begin")
  /\ stop' = FALSE
  /\ UNCHANGED <<files, hand, history>>

Begin(r) ==
  /\ pc[r] = "modify" /\ stage[r] = "begin"
  /\ Save(r, "begin", Skeleton(copy[r]))
  /\ todo' = [todo EXCEPT ![r] = Enabled]
  /\ Unseen

\* Mutant: a stop that arrives while candles are loaded just ends the run.
CandlesForgetful(r) ==
  /\ pc[r] = "candles"
  /\ \/ ~stop /\ Go(r, "loop") /\ UNCHANGED <<stage, healing, copy>>
     \/ stop /\ Save(r, "halted", copy[r])
     \/ Save(r, "last", Marked(copy[r], Running(copy[r]), "error"))
  /\ UNCHANGED todo /\ Unseen

\* load_candles_for_backtest: candles, a stop, or an exception.
Candles(r) ==
  /\ pc[r] = "candles"
  /\ \/ ~stop /\ Go(r, "loop") /\ UNCHANGED <<stage, healing, copy>>
     \/ stop /\ Save(r, "halted", Stopped(copy[r]))
     \/ Save(r, "last", Marked(copy[r], Running(copy[r]), "error"))
  /\ UNCHANGED todo /\ Unseen

\* The strategy loop: the next strategy; a stop, which marks the strategies that
\* follow in the list, some that are not enabled among them; or the ranking.
Loop(r) ==
  /\ pc[r] = "loop"
  /\ \/ /\ ~stop
        /\ \E s \in todo[r] : /\ Save(r, "begun", Marked(copy[r], {s}, "running"))
                              /\ todo' = [todo EXCEPT ![r] = @ \ {s}]
     \/ /\ stop /\ todo[r] # {}
        /\ \E others \in SUBSET (Strategies \ Enabled) :
             Save(r, "stopped",
                  Marked(copy[r], Running(copy[r]) \cap (todo[r] \cup others), "idle"))
        /\ UNCHANGED todo
     \/ /\ todo[r] = {}
        /\ Save(r, "last", Ranked(copy[r]))
        /\ UNCHANGED todo
  /\ Unseen

\* run_strategy_backtest: a result, "Stopped by user", or another exception.
Work(r) ==
  /\ pc[r] = "work"
  /\ \E s \in (Running(copy[r]) \cap Enabled) \ todo[r] :
       \E result \in {"completed", "error"} \cup (IF stop THEN {"idle"} ELSE {}) :
         Save(r, "worked", Marked(copy[r], {s}, result))
  /\ UNCHANGED todo /\ Unseen

\* The finally clause.
End(r) ==
  /\ pc[r] = "end"
  /\ Gone(r)
  /\ stop' = FALSE
  /\ current' = current \ {r}
  /\ UNCHANGED <<files, hand, damaged>>

-----------------------------------------------------------------------------
(* POST /api/stop: the stop file, the signal, the patch.                   *)

StopRequest(q) ==
  /\ pc[q] = "new" /\ Go(q, "kill")
  /\ stop' = TRUE
  /\ UNCHANGED <<files, hand, stage, healing, copy, todo, history>>

\* Between the pid file and the finally clause a run can be signalled.
Listed(r) ==
  Alive(r) /\ pc[r] # "start" /\ stage[r] \notin {"repair", "clear"}

StopKill(q) ==
  /\ pc[q] = "kill"
  /\ \/ \E r \in Runs :
          /\ Listed(r)
          /\ pc' = [pc EXCEPT ![q] = "read", ![r] = "over"]
          /\ stage' = [stage EXCEPT ![r] = "repair"]
          /\ healing' = [healing EXCEPT ![r] = FALSE]
          /\ copy' = [copy EXCEPT ![r] = Default]
          /\ hand' = [hand EXCEPT ![r] = "none"]
          /\ current' = current \ {r}
     \/ /\ \A r \in Runs : ~Listed(r) \/ pc[r] = "end"
        /\ Go(q, "read")
        /\ UNCHANGED <<stage, healing, copy, hand, current>>
  /\ UNCHANGED <<files, todo, stop, damaged>>

\* readFile and markDashboardStopped; what cannot be parsed is not patched.
StopRead(q) ==
  /\ pc[q] = "read"
  /\ \/ /\ file \in Data
        /\ Go(q, "patch_open")
        /\ copy' = [copy EXCEPT ![q] = Stopped(file)]
     \/ /\ file \notin Data
        /\ Go(q, "over")
        /\ UNCHANGED copy
  /\ UNCHANGED <<files, hand, stage, healing, todo, stop, history>>

\* writeFile truncates the dashboard itself...
StopOpen(q) ==
  /\ pc[q] = "patch_open" /\ Go(q, "patch_write")
  /\ file' = Torn
  /\ mixed' = [mixed EXCEPT !["file"] = \E p \in Processes : hand[p] = "file"]
  /\ hand' = [hand EXCEPT ![q] = "file"]
  /\ damaged' = (damaged \/ \E p \in Stops : hand[p] = "file")
  /\ current' = {}
  /\ UNCHANGED <<tmp, stage, healing, copy, todo, stop>>

\* ... and writes it, unless it has been replaced meanwhile.
StopWrite(q) ==
  /\ pc[q] = "patch_write" /\ Go(q, "over")
  /\ IF hand[q] = "file"
     THEN file' \in Written("file", copy[q]) /\ current' = {}
     ELSE UNCHANGED <<file, current>>
  /\ hand' = [hand EXCEPT ![q] = "none"]
  /\ copy' = [copy EXCEPT ![q] = Default]
  /\ UNCHANGED <<tmp, mixed, stage, healing, todo, stop, damaged>>

\* The server goes down before it has written.
StopDies(q) ==
  /\ pc[q] = "patch_write" /\ Go(q, "over")
  /\ damaged' = (damaged \/ hand[q] = "file")
  /\ hand' = [hand EXCEPT ![q] = "none"]
  /\ copy' = [copy EXCEPT ![q] = Default]
  /\ UNCHANGED <<files, stage, healing, todo, stop, current>>

-----------------------------------------------------------------------------

SaveStep(p) ==
  \/ LoadDashboard(p) \/ ConfigFails(p)
  \/ SaveOpen(p) \/ SaveWrite(p) \/ SaveReplace(p) \/ SaveFails(p)

CommandStep(p) ==
  \/ Repair(p) \/ ClearLive(p) \/ RefreshRanking(p) \/ SetEnabled(p) \/ Tick(p)

RunStep(r) ==
  \/ Bootstrap(r) \/ Start(r) \/ Begin(r) \/ Candles(r) \/ Loop(r) \/ Work(r) \/ End(r)

StopStep(q) ==
  \/ StopRequest(q) \/ StopKill(q) \/ StopRead(q)
  \/ StopOpen(q) \/ StopWrite(q) \/ StopDies(q)

Next ==
  \/ \E p \in Mains : SaveStep(p) \/ CommandStep(p) \/ Die(p)
  \/ \E p \in Savers, command \in Commands : Call(p, command)
  \/ \E r \in Runs : RunStep(r)
  \/ \E q \in Stops : StopStep(q)

Spec == Init /\ [][Next]_vars

-----------------------------------------------------------------------------
(* Properties.                                                             *)

\* RankedAreCompleted: whoever wrote the dashboard last, from whatever copy, it
\* ranks no strategy that it does not show with a result.
RankedAreCompleted == file \in Data => file.ranked \subseteq Completed(file)

\* FileIsWhole: the dashboard can be read at any time but in the middle of a
\* patch, unless two saves have crossed or a patch was cut short; and the next
\* save that nobody crosses makes up for that.
FileIsWhole == file = Torn => damaged \/ \E q \in Stops : hand[q] = "file"

\* NothingLeftRunning: a run that ends after its own last save has left no enabled
\* strategy "running", however it came to its end.
NothingLeftRunning ==
  \A r \in Runs : pc[r] = "end" /\ stage[r] \in {"halted", "last"} =>
    Running(copy[r]) \cap Enabled = {}

\* ResultsAreKept: a command that changes the dashboard it has loaded, and not
\* an older one, loses no result of any strategy.
ResultsAreKept ==
  [][\A p \in Savers \cap current :
       /\ pc[p] = "replace" /\ pc'[p] # "replace"
       /\ file \in Data /\ ~damaged
       => file' \in Data /\ Completed(file) \subseteq Completed(file')]_vars

=============================================================================
