--------------------------- MODULE Catalogue_proofs ---------------------------
(***************************************************************************)
(* That the settings in config/dashboard.json are always valid, and that   *)
(* what is saved there and in .env stays, for any processes, commands and  *)
(* strategies.  The files alone are not inductive: what a process writes   *)
(* is the copy it has read, however old, changed by updates that were      *)
(* checked against that very copy.                                         *)
(***************************************************************************)
EXTENDS Catalogue, TLAPS

\* A configuration in memory: the settings are valid.
Good(c) ==
  /\ c = [settings |-> c.settings, overrides |-> c.overrides]
  /\ ValidRuntimeSettings(c.settings)

\* A process changes its copy only by a command that is meant to, and applies only
\* updates that it has found acceptable for this copy.
Ready(p) ==
  /\ pc[p] = "load" => job[p].kind \in {"delete", "run"}
  /\ pc[p] \in {"open", "write"} =>
       /\ job[p].kind \in {"settings", "enable", "delete", "run"}
       /\ job[p].kind = "settings" => Acceptable(job[p].updates, held[p].settings)

Copies ==
  /\ config # Torn => Good(config)
  /\ \A p \in Processes : Good(held[p]) /\ Ready(p)

Shape ==
  /\ pc = [p \in Processes |-> pc[p]]
  /\ job = [p \in Processes |-> job[p]]
  /\ held = [p \in Processes |-> held[p]]

IInv == Shape /\ Copies

LEMMA Started == CatalogueInit => IInv
  BY CatalogueAssumption DEF CatalogueInit, IInv, Copies, Shape, Ready, Good, NoCopy

\* Whatever a command does to a good copy, it leaves a good one.
LEMMA ChangedIsGood ==
  ASSUME NEW j, NEW c, Good(c),
         j.kind \in {"settings", "enable", "delete", "run", "sanitize"},
         j.kind = "settings" => Acceptable(j.updates, c.settings)
  PROVE  Good(Changed(j, c))
<1>1. CASE j.kind = "settings"
  BY <1>1 DEF Changed, Reset, Acceptable, Good
<1>2. CASE j.kind = "enable"
  BY <1>2 DEF Changed, Enabled, Good
<1>3. CASE j.kind = "delete"
  BY <1>3 DEF Changed, Dropped, Good
<1>4. CASE j.kind = "run"
  BY <1>4 DEF Changed, Updated, Good
<1>5. CASE j.kind = "sanitize"
  BY <1>5 DEF Changed, Sanitized, Good
<1> QED
  BY <1>1, <1>2, <1>3, <1>4, <1>5

\* The step of a process that leaves what belongs to the others alone.
LEMMA StepOfOne ==
  ASSUME IInv, NEW p \in Processes,
         config' # Torn => Good(config'),
         pc' = [pc EXCEPT ![p] = pc'[p]],
         job' = [job EXCEPT ![p] = job'[p]],
         held' = [held EXCEPT ![p] = held'[p]],
         Good(held'[p]), Ready(p)'
  PROVE  IInv'
<1>1. \A q \in Processes \ {p} : /\ pc'[q] = pc[q] /\ job'[q] = job[q]
                                  /\ held'[q] = held[q]
  BY DEF IInv, Shape
<1>2. \A q \in Processes : (Good(held[q]) /\ Ready(q))'
  BY <1>1 DEF IInv, Copies, Ready
<1>3. Shape'
  BY DEF IInv, Shape
<1> QED
  BY <1>2, <1>3 DEF IInv, Copies

\* A process that ends has nothing left to be wrong.
LEMMA EndsWell ==
  ASSUME IInv, NEW p \in Processes, Finished(p), config' # Torn => Good(config')
  PROVE  IInv'
<1>1. Good(NoCopy)
  BY CatalogueAssumption DEF Good, NoCopy
<1>2. pc'[p] = "idle" /\ held'[p] = NoCopy
  BY DEF Finished, Go, IInv, Shape
<1> QED
  BY <1>1, <1>2, StepOfOne DEF Finished, Go, Ready, IInv, Shape

LEMMA LoadsWell ==
  ASSUME IInv, NEW p \in Processes, Load(p),
         NEW to \in {"begin", "sanitize open", "open"}, Go(p, to),
         to = "open" => LoadConfig(p)
  PROVE  IInv'
<1>1. pc'[p] = to /\ held'[p] = config /\ job' = job
  BY DEF Load, Go, IInv, Shape
<1>2. Good(config) /\ config' = config
  BY DEF Load, files, IInv, Copies
<1>3. Ready(p)'
  <2>1. CASE to \in {"begin", "sanitize open"}
    BY <1>1, <2>1 DEF Ready
  <2>2. CASE to = "open"
    BY <1>1, <2>2 DEF Ready, LoadConfig, IInv, Copies
  <2> QED
    BY <2>1, <2>2
<1> QED
  BY <1>1, <1>2, <1>3, StepOfOne DEF Load, Go, IInv, Shape

LEMMA CopiesKept ==
  ASSUME IInv, CatalogueNext
  PROVE  IInv'
<1> PICK p \in Processes :
      \/ Start(p) \/ Fail(p) \/ SanitizeLoad(p)
      \/ LoadConfig(p) \/ SaveOpen(p) \/ SaveWrite(p)
      \/ AddCheck(p) \/ AddOpen(p) \/ AddWrite(p) \/ DeleteUnlink(p) \/ RunSearch(p)
      \/ VerifyTokens(p) \/ EnvRead(p) \/ EnvOpen(p) \/ EnvWrite(p)
  BY DEF CatalogueNext
<1>0. /\ Good(held[p]) /\ Ready(p)
      /\ config # Torn => Good(config)
  BY DEF IInv, Copies
<1>1. CASE Start(p)
  <2>1. pc'[p] \in {"begin", "sanitize"} /\ held' = held /\ config' = config
    BY <1>1 DEF Start, Go, files, IInv, Shape
  <2> QED
    BY <1>0, <1>1, <2>1, StepOfOne DEF Start, Go, Ready, IInv, Shape
<1>2. CASE Fail(p)
  BY <1>0, <1>2, EndsWell DEF Fail, files
<1>3. CASE SanitizeLoad(p)
  <2>1. /\ Load(p)
        /\ Go(p, "begin") \/ Go(p, "sanitize open")
    BY <1>3 DEF SanitizeLoad
  <2> QED
    BY <2>1, LoadsWell
<1>4. CASE LoadConfig(p)
  BY <1>4, LoadsWell DEF LoadConfig
<1>5. CASE SaveOpen(p)
  <2>1. /\ pc'[p] = (IF pc[p] = "open" THEN "write" ELSE "sanitize write")
        /\ held' = held /\ job' = job /\ config' = Torn
    BY <1>5 DEF SaveOpen, Go, IInv, Shape
  <2>2. Ready(p)'
    BY <1>0, <1>5, <2>1 DEF SaveOpen, Ready
  <2> QED
    BY <1>0, <1>5, <2>1, <2>2, StepOfOne DEF SaveOpen, Go, IInv, Shape
<1>6. CASE SaveWrite(p)
  <2>1. Good(Changed(Current(p), held[p]))
    <3>1. CASE pc[p] = "write"
      <4>1. Current(p) = job[p]
        BY <3>1 DEF Current
      <4> QED
        BY <1>0, <3>1, <4>1, ChangedIsGood DEF Ready
    <3>2. CASE pc[p] = "sanitize write"
      <4>1. Current(p).kind = "sanitize"
        BY <3>2 DEF Current, SanitizedJob
      <4> QED
        BY <1>0, <4>1, ChangedIsGood
    <3> QED
      BY <1>6, <3>1, <3>2 DEF SaveWrite
  <2>2. config' # Torn => Good(config')
    BY <1>6, <2>1 DEF SaveWrite
  <2>3. CASE pc[p] = "sanitize write"
    <3>1. Go(p, "begin") /\ held' = held /\ job' = job
      BY <1>6, <2>3 DEF SaveWrite
    <3>2. pc'[p] = "begin"
      BY <3>1 DEF Go, IInv, Shape
    <3> QED
      BY <1>0, <2>2, <3>1, <3>2, StepOfOne DEF Go, Ready, IInv, Shape
  <2>4. CASE pc[p] # "sanitize write"
    BY <1>6, <2>2, <2>4, EndsWell DEF SaveWrite
  <2> QED
    BY <2>3, <2>4
<1>7. CASE AddCheck(p)
  <2>1. pc'[p] = "yaml open" /\ UNCHANGED <<config, job, held>>
    BY <1>7 DEF AddCheck, Go, files, locals, IInv, Shape
  <2> QED
    BY <1>0, <1>7, <2>1, StepOfOne DEF AddCheck, Go, Ready, IInv, Shape
<1>8. CASE AddOpen(p)
  <2>1. pc'[p] = "yaml write" /\ UNCHANGED <<config, job, held>>
    BY <1>8 DEF AddOpen, Go, IInv, Shape
  <2> QED
    BY <1>0, <1>8, <2>1, StepOfOne DEF AddOpen, Go, Ready, IInv, Shape
<1>9. CASE AddWrite(p)
  BY <1>0, <1>9, EndsWell DEF AddWrite
<1>10. CASE DeleteUnlink(p)
  <2>1. pc'[p] = "load" /\ job[p].kind = "delete" /\ UNCHANGED <<config, job, held>>
    BY <1>10 DEF DeleteUnlink, Go, locals, IInv, Shape
  <2> QED
    BY <1>0, <1>10, <2>1, StepOfOne DEF DeleteUnlink, Go, Ready, IInv, Shape
<1>11. CASE RunSearch(p)
  <2>1. pc'[p] = "load" /\ job'[p].kind = "run" /\ UNCHANGED <<config, held>>
    BY <1>11 DEF RunSearch, Go, files, IInv, Shape
  <2>2. job' = [job EXCEPT ![p] = job'[p]]
    BY <1>11 DEF RunSearch, IInv, Shape
  <2> QED
    BY <1>0, <1>11, <2>1, <2>2, StepOfOne DEF RunSearch, Go, Ready, IInv, Shape
<1>12. CASE VerifyTokens(p)
  <2>1. pc'[p] = "env read" /\ UNCHANGED <<config, held>>
    BY <1>12 DEF VerifyTokens, Go, files, IInv, Shape
  <2>2. job' = [job EXCEPT ![p] = job'[p]]
    BY <1>12 DEF VerifyTokens, IInv, Shape
  <2>3. pc' = [pc EXCEPT ![p] = pc'[p]]
    BY <1>12 DEF VerifyTokens, Go, IInv, Shape
  <2>4. held' = [held EXCEPT ![p] = held'[p]]
    BY <2>1 DEF IInv, Shape
  <2>5. Ready(p)'
    BY <2>1 DEF Ready
  <2> QED
    BY <1>0, <2>1, <2>2, <2>3, <2>4, <2>5, StepOfOne
<1>13. CASE EnvRead(p)
  <2>1. pc'[p] = "env open" /\ UNCHANGED <<config, job, held>>
    BY <1>13 DEF EnvRead, Go, files, IInv, Shape
  <2> QED
    BY <1>0, <1>13, <2>1, StepOfOne DEF EnvRead, Go, Ready, IInv, Shape
<1>14. CASE EnvOpen(p)
  <2>1. pc'[p] = "env write" /\ UNCHANGED <<config, job, held>>
    BY <1>14 DEF EnvOpen, Go, IInv, Shape
  <2> QED
    BY <1>0, <1>14, <2>1, StepOfOne DEF EnvOpen, Go, Ready, IInv, Shape
<1>15. CASE EnvWrite(p)
  BY <1>0, <1>15, EndsWell DEF EnvWrite
<1> QED
  BY <1>1, <1>2, <1>3, <1>4, <1>5, <1>6, <1>7, <1>8, <1>9, <1>10, <1>11, <1>12,
     <1>13, <1>14, <1>15

LEMMA CopiesAreGood == CatalogueSpec => []IInv
<1>1. ASSUME IInv, UNCHANGED catalogueVars PROVE IInv'
  BY <1>1 DEF catalogueVars, IInv, Copies, Shape, Ready
<1> QED
  BY <1>1, CopiesKept, Started, PTL DEF CatalogueSpec

\* Whatever commands cross, die or fail, a configuration file that can be read holds
\* settings that validate_runtime_settings accepts as a whole (save_runtime_settings).
THEOREM SettingsAreValid == CatalogueSpec => []SettingsStayValid
<1>1. IInv => SettingsStayValid
  BY DEF IInv, Copies, Good, SettingsStayValid
<1> QED
  BY <1>1, CopiesAreGood, PTL

-----------------------------------------------------------------------------
(***************************************************************************)
(* What was saved stays.  A copy agrees with what was saved on every key   *)
(* but those that another process has saved since it was read (stale), and *)
(* those a save has undone already (lost).                                 *)
(***************************************************************************)
Whole(c) == c = [settings |-> c.settings, overrides |-> [s \in Ids |-> c.overrides[s]]]

\* The copy c agrees with the saved configuration d but for the keys in `but'.
Agrees(c, d, but) ==
  /\ "settings" \notin but => c.settings = d.settings
  /\ \A s \in Ids \ but : c.overrides[s] = d.overrides[s]

Holding(p) == pc[p] \in {"open", "write", "sanitize open", "sanitize write"}
HoldingEnv(p) == pc[p] \in {"env open", "env write"}

CopyFits(p) ==
  Holding(p) => Whole(held[p]) /\ Agrees(held[p], saved, stale[p] \cup lost)

EnvFits(p) ==
  HoldingEnv(p) => \A k \in EnvKeys \ (stale[p] \cup lost) : heldEnv[p][k] = savedEnv[k]

JobFits(p) ==
  /\ pc[p] \in {"env read", "env open", "env write"} => job[p].accepted = TRUE
  /\ job[p].kind \in {"enable", "delete", "run"} => job[p].id \in Ids

FilesFit ==
  /\ config # Torn => Whole(config) /\ Agrees(config, saved, lost)
  /\ (\A p \in Processes : pc[p] # "env write") =>
       \A k \in EnvKeys \ lost : env[k] = savedEnv[k]

SavedShape ==
  /\ Whole(saved) /\ agenda \in Agendas
  /\ heldEnv = [p \in Processes |-> heldEnv[p]]
  /\ stale = [p \in Processes |-> stale[p]]

SavedInv ==
  /\ SavedShape /\ FilesFit
  /\ \A p \in Processes : CopyFits(p) /\ EnvFits(p) /\ JobFits(p)

LEMMA SavedStarts == CatalogueInit => SavedInv
<1> SUFFICES ASSUME CatalogueInit PROVE SavedInv
  OBVIOUS
<1>1. Whole(config) /\ saved = config
  BY CatalogueAssumption DEF CatalogueInit, Whole
<1>2. \A p \in Processes : pc[p] = "idle" /\ job[p].kind = "none"
  BY DEF CatalogueInit
<1>3. SavedShape
  BY <1>1 DEF CatalogueInit, SavedShape
<1>4. FilesFit
  BY <1>1 DEF CatalogueInit, FilesFit, Agrees
<1> QED
  BY <1>2, <1>3, <1>4 DEF SavedInv, CopyFits, EnvFits, JobFits, Holding, HoldingEnv

\* A change of one key does not look at the others.
LEMMA ChangedByKey ==
  ASSUME NEW j, NEW c, NEW d, NEW but, Whole(c), Whole(d), Agrees(c, d, but),
         j.kind \in {"settings", "enable", "delete", "run", "sanitize"},
         j.kind = "delete" => j.id \in Ids
  PROVE  /\ Whole(Changed(j, c))
         /\ Agrees(Changed(j, c), Changed(j, d), but \ (IF j.kind = "delete" THEN {j.id} ELSE {}))
<1>1. CASE j.kind = "settings"
  BY <1>1 DEF Changed, Reset, Whole, Agrees
<1>2. CASE j.kind = "enable"
  BY <1>2 DEF Changed, Enabled, Whole, Agrees
<1>3. CASE j.kind = "delete"
  BY <1>3, CatalogueAssumption DEF Changed, Dropped, Whole, Agrees
<1>4. CASE j.kind = "run"
  BY <1>4 DEF Changed, Updated, Whole, Agrees
<1>5. CASE j.kind = "sanitize"
  BY <1>5 DEF Changed, Sanitized, Whole, Agrees
<1> QED
  BY <1>1, <1>2, <1>3, <1>4, <1>5

LEMMA OtherKeysStay ==
  ASSUME NEW j, NEW c, Whole(c),
         j.kind \in {"settings", "enable", "delete", "run", "sanitize"}
  PROVE  Agrees(Changed(j, c), c, KeysOf(j, c))
<1>1. CASE j.kind = "settings"
  BY <1>1 DEF Changed, Reset, KeysOf, Whole, Agrees
<1>2. CASE j.kind = "enable"
  BY <1>2 DEF Changed, Enabled, KeysOf, Whole, Agrees
<1>3. CASE j.kind = "delete"
  BY <1>3 DEF Changed, Dropped, KeysOf, Whole, Agrees
<1>4. CASE j.kind = "run"
  BY <1>4 DEF Changed, Updated, KeysOf, Whole, Agrees
<1>5. CASE j.kind = "sanitize"
  BY <1>5 DEF Changed, Sanitized, KeysOf, Whole, Agrees
<1> QED
  BY <1>1, <1>2, <1>3, <1>4, <1>5

\* A step of one process that saves nothing: what is lost only grows.
LEMMA NothingSaved ==
  ASSUME IInv, SavedInv, NEW p \in Processes,
         UNCHANGED <<agenda, saved, savedEnv>>, lost \subseteq lost',
         pc' = [pc EXCEPT ![p] = pc'[p]],
         job' = [job EXCEPT ![p] = job'[p]],
         held' = [held EXCEPT ![p] = held'[p]],
         heldEnv' = [heldEnv EXCEPT ![p] = heldEnv'[p]],
         stale' = [stale EXCEPT ![p] = stale'[p]],
         config' \in {config, Torn},
         env' = env \/ pc'[p] = "env write",
         pc[p] = "env write" => pc'[p] = "env write" \/ EnvKeys \subseteq lost',
         CopyFits(p)', EnvFits(p)', JobFits(p)'
  PROVE  SavedInv'
<1>1. ASSUME NEW q \in Processes, q # p
      PROVE  (CopyFits(q) /\ EnvFits(q) /\ JobFits(q))'
  <2>1. /\ pc'[q] = pc[q] /\ job'[q] = job[q] /\ held'[q] = held[q]
        /\ heldEnv'[q] = heldEnv[q] /\ stale'[q] = stale[q]
    BY <1>1 DEF IInv, Shape, SavedInv, SavedShape
  <2>2. CopyFits(q) /\ EnvFits(q) /\ JobFits(q)
    BY DEF SavedInv
  <2>3. CopyFits(q)'
    <3>1. Agrees(held[q], saved, stale[q] \cup lost) =>
            Agrees(held[q], saved, stale[q] \cup lost')
      BY DEF Agrees
    <3> QED
      BY <2>1, <2>2, <3>1 DEF CopyFits, Holding
  <2>4. EnvFits(q)'
    BY <2>1, <2>2 DEF EnvFits, HoldingEnv
  <2> QED
    BY <2>1, <2>2, <2>3, <2>4 DEF JobFits
<1>2. FilesFit'
  <2>1. config' # Torn => Whole(config') /\ Agrees(config', saved', lost')
    BY DEF SavedInv, FilesFit, Agrees
  <2>2. ASSUME \A q \in Processes : pc'[q] # "env write"
        PROVE  \A k \in EnvKeys \ lost' : env'[k] = savedEnv'[k]
    <3>1. CASE pc[p] = "env write"
      BY <2>2, <3>1
    <3>2. CASE pc[p] # "env write"
      <4>1. \A q \in Processes : pc[q] # "env write"
        BY <2>2, <3>2 DEF IInv, Shape
      <4> QED
        BY <2>2, <4>1 DEF SavedInv, FilesFit
    <3> QED
      BY <3>1, <3>2
  <2> QED
    BY <2>1, <2>2 DEF FilesFit
<1>3. SavedShape'
  BY DEF SavedInv, SavedShape
<1> QED
  BY <1>1, <1>2, <1>3 DEF SavedInv

LEMMA FailKeeps ==
  ASSUME IInv, SavedInv, NEW p \in Processes, Fail(p)
  PROVE  SavedInv'
<1>1. /\ pc' = [pc EXCEPT ![p] = "idle"]
      /\ job' = [job EXCEPT ![p] = [kind |-> "none"]]
      /\ held' = [held EXCEPT ![p] = NoCopy]
      /\ heldEnv' = [heldEnv EXCEPT ![p] = EmptyEnv]
      /\ stale' = [stale EXCEPT ![p] = {}]
      /\ UNCHANGED <<agenda, saved, savedEnv, config, env>>
  BY DEF Fail, Finished, Go, files
<1>2. /\ pc'[p] = "idle" /\ job'[p].kind = "none"
      /\ pc = [q \in Processes |-> pc[q]]
      /\ pc' = [pc EXCEPT ![p] = pc'[p]]
      /\ job' = [job EXCEPT ![p] = job'[p]]
      /\ held' = [held EXCEPT ![p] = held'[p]]
      /\ heldEnv' = [heldEnv EXCEPT ![p] = heldEnv'[p]]
      /\ stale' = [stale EXCEPT ![p] = stale'[p]]
  BY <1>1 DEF IInv, Shape, SavedInv, SavedShape
<1>3. lost \subseteq lost' /\ (pc[p] = "env write" => EnvKeys \subseteq lost')
  BY DEF Fail
<1>4. CopyFits(p)' /\ EnvFits(p)' /\ JobFits(p)'
  BY <1>2 DEF CopyFits, EnvFits, JobFits, Holding, HoldingEnv
<1> QED
  BY <1>1, <1>2, <1>3, <1>4, NothingSaved

\* A save of the configuration: what was not undone is what is written.
LEMMA SaveKeeps ==
  ASSUME IInv, SavedInv, NEW p \in Processes, SaveWrite(p)
  PROVE  SavedInv'
<1> DEFINE j == Current(p)
           done == Changed(j, held[p])
           keys == KeysOf(j, held[p])
           gone == IF j.kind = "delete" THEN {j.id} ELSE {}
<1>1. pc[p] \in {"write", "sanitize write"}
  BY DEF SaveWrite
<1>2. /\ j.kind \in {"settings", "enable", "delete", "run", "sanitize"}
      /\ j.kind = "delete" => j.id \in Ids
  BY <1>1 DEF Current, SanitizedJob, IInv, Copies, Ready, SavedInv, JobFits
<1>3. Whole(held[p]) /\ Agrees(held[p], saved, stale[p] \cup lost) /\ Whole(saved)
  BY <1>1 DEF SavedInv, SavedShape, CopyFits, Holding
<1>4. /\ lost' = (lost \cup stale[p]) \ gone
      /\ config' \in {done, Torn}
      /\ saved' = [settings |-> IF "settings" \in lost' THEN done.settings
                                ELSE Changed(j, saved).settings,
                   overrides |-> [s \in Ids |-> IF s \in lost' THEN done.overrides[s]
                                                ELSE Changed(j, saved).overrides[s]]]
      /\ stale' = [q \in Processes |-> IF q = p THEN {} ELSE stale[q] \cup keys]
      /\ UNCHANGED <<env, savedEnv>>
  BY DEF SaveWrite
<1>5. Whole(done) /\ Agrees(done, Changed(j, saved), (stale[p] \cup lost) \ gone)
  BY <1>2, <1>3, ChangedByKey
<1>6. Agrees(done, held[p], keys) /\ gone \subseteq keys
  <2>1. Agrees(done, held[p], keys)
    BY <1>2, <1>3, OtherKeysStay
  <2>2. gone \subseteq keys
    BY DEF KeysOf
  <2> QED BY <2>1, <2>2
<1>7. /\ pc'[p] \in {"begin", "idle"}
      /\ job'[p] = job[p] \/ job'[p].kind = "none"
      /\ pc' = [pc EXCEPT ![p] = pc'[p]] /\ job' = [job EXCEPT ![p] = job'[p]]
      /\ held' = [held EXCEPT ![p] = held'[p]]
      /\ heldEnv' = [heldEnv EXCEPT ![p] = heldEnv'[p]]
      /\ agenda' = agenda
  <2>1. CASE pc[p] = "sanitize write"
    <3>1. Go(p, "begin") /\ UNCHANGED <<agenda, job, known, held, heldEnv>>
      BY <2>1 DEF SaveWrite
    <3> QED
      BY <3>1 DEF Go, IInv, Shape, SavedInv, SavedShape
  <2>2. CASE pc[p] # "sanitize write"
    <3>1. Finished(p)
      BY <2>2 DEF SaveWrite
    <3> QED
      BY <3>1 DEF Finished, Go, IInv, Shape, SavedInv, SavedShape
  <2> QED
    BY <2>1, <2>2
<1> HIDE DEF j, done, keys, gone
<1>8. Whole(saved') /\ Agrees(done, saved', {})
  BY <1>4, <1>5 DEF Whole, Agrees
<1>9. gone \subseteq Ids
  BY <1>2 DEF gone
<1>10. FilesFit'
  <2>1. config' # Torn => Whole(config') /\ Agrees(config', saved', lost')
    BY <1>4, <1>5, <1>8 DEF Agrees
  <2>2. ASSUME \A q \in Processes : pc'[q] # "env write"
        PROVE  \A k \in EnvKeys \ lost' : env'[k] = savedEnv'[k]
    <3>1. \A q \in Processes : pc[q] # "env write"
      BY <1>1, <1>7, <2>2 DEF IInv, Shape
    <3>2. \A k \in EnvKeys \ lost : env[k] = savedEnv[k]
      BY <3>1 DEF SavedInv, FilesFit
    <3> QED
      BY <1>4, <1>9, <3>2, CatalogueAssumption
  <2> QED
    BY <2>1, <2>2 DEF FilesFit
<1>11. ASSUME NEW q \in Processes, q # p
       PROVE  (CopyFits(q) /\ EnvFits(q) /\ JobFits(q))'
  <2>1. /\ pc'[q] = pc[q] /\ job'[q] = job[q] /\ held'[q] = held[q]
        /\ heldEnv'[q] = heldEnv[q] /\ stale'[q] = stale[q] \cup keys
    BY <1>4, <1>7, <1>11 DEF IInv, Shape, SavedInv, SavedShape
  <2>2. CopyFits(q) /\ EnvFits(q) /\ JobFits(q)
    BY DEF SavedInv
  <2>3. Agrees(saved', saved, keys \cup lost')
    <3>1. Agrees(held[p], saved, keys \cup lost')
      BY <1>3, <1>4, <1>6 DEF Agrees
    <3> QED
      BY <1>6, <1>8, <3>1 DEF Agrees
  <2>4. CopyFits(q)'
    <3>1. Holding(q) => Whole(held[q]) /\ Agrees(held[q], saved, stale[q] \cup lost)
      BY <2>2 DEF CopyFits
    <3>2. lost \subseteq keys \cup lost'
      BY <1>4, <1>6
    <3>3. Holding(q) => Agrees(held[q], saved', stale[q] \cup keys \cup lost')
      BY <2>3, <3>1, <3>2 DEF Agrees
    <3> QED
      BY <2>1, <3>1, <3>3 DEF CopyFits, Holding
  <2>5. EnvFits(q)'
    <3>1. EnvKeys \ (stale'[q] \cup lost') \subseteq EnvKeys \ (stale[q] \cup lost)
      BY <1>4, <1>9, <2>1, CatalogueAssumption
    <3> QED
      BY <1>4, <2>1, <2>2, <3>1 DEF EnvFits, HoldingEnv
  <2>6. JobFits(q)'
    BY <2>1, <2>2 DEF JobFits
  <2> QED
    BY <2>4, <2>5, <2>6
<1>12. (CopyFits(p) /\ EnvFits(p) /\ JobFits(p))'
  <2>1. JobFits(p)
    BY DEF SavedInv
  <2> QED
    BY <1>7, <2>1 DEF CopyFits, EnvFits, JobFits, Holding, HoldingEnv
<1>13. SavedShape'
  BY <1>4, <1>7, <1>8 DEF SavedInv, SavedShape
<1> QED
  BY <1>10, <1>11, <1>12, <1>13 DEF SavedInv

\* A save of tokens.
LEMMA EnvWriteKeeps ==
  ASSUME IInv, SavedInv, NEW p \in Processes, EnvWrite(p)
  PROVE  SavedInv'
<1> DEFINE given == job[p].updates
<1>1. pc[p] = "env write" /\ job[p].accepted = TRUE
  BY DEF EnvWrite, SavedInv, JobFits
<1>2. \A k \in EnvKeys \ (stale[p] \cup lost) : heldEnv[p][k] = savedEnv[k]
  BY <1>1 DEF SavedInv, EnvFits, HoldingEnv
<1>3. /\ lost' = lost \cup (IF alone[p] THEN stale[p] ELSE EnvKeys)
      /\ \E remain \in IF alone[p] THEN {{}} ELSE SUBSET EnvKeys :
           env' = [k \in EnvKeys |-> IF k \in remain THEN env[k]
                                     ELSE EnvWith(heldEnv[p], given)[k]]
      /\ savedEnv' = [k \in EnvKeys |-> IF k \in lost' THEN env'[k]
                                        ELSE EnvWith(savedEnv, given)[k]]
      /\ stale' = [q \in Processes |-> IF q = p THEN {} ELSE stale[q] \cup DOMAIN given]
      /\ UNCHANGED <<config, saved>>
  BY <1>1 DEF EnvWrite
<1>4. /\ pc'[p] = "idle" /\ job'[p].kind = "none"
      /\ pc' = [pc EXCEPT ![p] = pc'[p]] /\ job' = [job EXCEPT ![p] = job'[p]]
      /\ held' = [held EXCEPT ![p] = held'[p]]
      /\ heldEnv' = [heldEnv EXCEPT ![p] = heldEnv'[p]]
      /\ agenda' = agenda
  BY DEF EnvWrite, Finished, Go, IInv, Shape, SavedInv, SavedShape
<1>5. \A k \in EnvKeys \ lost' : env'[k] = savedEnv'[k]
  <2> SUFFICES ASSUME NEW k \in EnvKeys, k \notin lost' PROVE env'[k] = savedEnv'[k]
    OBVIOUS
  <2>1. alone[p] /\ k \notin stale[p] \cup lost
    BY <1>3
  <2>2. env'[k] = EnvWith(heldEnv[p], given)[k]
    BY <1>3, <2>1
  <2> QED
    BY <1>2, <1>3, <2>1, <2>2 DEF EnvWith
<1>6. FilesFit'
  BY <1>3, <1>5 DEF SavedInv, FilesFit, Agrees
<1>7. ASSUME NEW q \in Processes, q # p
      PROVE  (CopyFits(q) /\ EnvFits(q) /\ JobFits(q))'
  <2>1. /\ pc'[q] = pc[q] /\ job'[q] = job[q] /\ held'[q] = held[q]
        /\ heldEnv'[q] = heldEnv[q] /\ stale'[q] = stale[q] \cup DOMAIN given
    BY <1>3, <1>4, <1>7 DEF IInv, Shape, SavedInv, SavedShape
  <2>2. CopyFits(q) /\ EnvFits(q) /\ JobFits(q)
    BY DEF SavedInv
  <2>3. \A k \in EnvKeys \ (stale'[q] \cup lost') : savedEnv'[k] = savedEnv[k]
    BY <1>3, <2>1 DEF EnvWith
  <2>4. EnvFits(q)'
    BY <1>3, <2>1, <2>2, <2>3 DEF EnvFits, HoldingEnv
  <2>5. CopyFits(q)'
    BY <1>3, <2>1, <2>2 DEF CopyFits, Holding, Agrees
  <2> QED
    BY <2>1, <2>2, <2>4, <2>5 DEF JobFits
<1>8. (CopyFits(p) /\ EnvFits(p) /\ JobFits(p))'
  BY <1>4 DEF CopyFits, EnvFits, JobFits, Holding, HoldingEnv
<1>9. SavedShape'
  BY <1>3, <1>4 DEF SavedInv, SavedShape
<1> QED
  BY <1>6, <1>7, <1>8, <1>9 DEF SavedInv

\* Reading the configuration: the copy agrees with what is saved.
LEMMA LoadKeeps ==
  ASSUME IInv, SavedInv, NEW p \in Processes, Load(p),
         NEW to \in {"begin", "sanitize open", "open"}, Go(p, to),
         pc[p] # "env write"
  PROVE  SavedInv'
<1>1. /\ pc' = [pc EXCEPT ![p] = to]
      /\ held' = [held EXCEPT ![p] = config]
      /\ stale' = [stale EXCEPT ![p] = {}]
      /\ config # Torn
      /\ UNCHANGED <<config, env, agenda, job, heldEnv, saved, savedEnv, lost>>
  BY DEF Load, Go, files
<1>2. /\ pc'[p] = to /\ held'[p] = config /\ stale'[p] = {} /\ job'[p] = job[p]
      /\ pc' = [pc EXCEPT ![p] = pc'[p]] /\ job' = [job EXCEPT ![p] = job'[p]]
      /\ held' = [held EXCEPT ![p] = held'[p]]
      /\ heldEnv' = [heldEnv EXCEPT ![p] = heldEnv'[p]]
      /\ stale' = [stale EXCEPT ![p] = stale'[p]]
  BY <1>1 DEF IInv, Shape, SavedInv, SavedShape
<1>3. CopyFits(p)'
  BY <1>1, <1>2 DEF SavedInv, FilesFit, CopyFits, Agrees
<1>4. EnvFits(p)' /\ JobFits(p)'
  BY <1>1, <1>2 DEF SavedInv, EnvFits, JobFits, HoldingEnv
<1> QED
  BY <1>1, <1>2, <1>3, <1>4, NothingSaved

\* The steps before a save, which leave what is held alone but for one copy.
LEMMA QuietKeeps ==
  ASSUME IInv, SavedInv, NEW p \in Processes,
         \/ Start(p) \/ SaveOpen(p) \/ AddCheck(p) \/ AddOpen(p) \/ DeleteUnlink(p)
         \/ RunSearch(p) \/ VerifyTokens(p) \/ EnvRead(p) \/ EnvOpen(p)
  PROVE  SavedInv'
<1>0. CopyFits(p) /\ EnvFits(p) /\ JobFits(p) /\ agenda \in Agendas
  BY DEF SavedInv, SavedShape
<1>1. /\ UNCHANGED <<agenda, saved, savedEnv, lost>> /\ held' = held
      /\ config' \in {config, Torn}
      /\ env' = env \/ (EnvOpen(p) /\ env' = EmptyEnv)
      /\ heldEnv' = heldEnv \/ (EnvRead(p) /\ heldEnv' = [heldEnv EXCEPT ![p] = env])
      /\ stale' = stale \/ EnvRead(p)
      /\ job' = job \/ Start(p) \/ RunSearch(p) \/ VerifyTokens(p)
  BY DEF Start, SaveOpen, AddCheck, AddOpen, DeleteUnlink, RunSearch, VerifyTokens,
         EnvRead, EnvOpen, files, locals, history
<1>2. /\ pc' = [pc EXCEPT ![p] = pc'[p]] /\ pc[p] # "env write"
  BY DEF Start, SaveOpen, AddCheck, AddOpen, DeleteUnlink, RunSearch, VerifyTokens,
         EnvRead, EnvOpen, Go, IInv, Shape
<1>3. /\ job' = [job EXCEPT ![p] = job'[p]]
      /\ held' = [held EXCEPT ![p] = held'[p]]
      /\ heldEnv' = [heldEnv EXCEPT ![p] = heldEnv'[p]]
      /\ stale' = [stale EXCEPT ![p] = stale'[p]]
  BY <1>1 DEF Start, RunSearch, VerifyTokens, EnvRead, IInv, Shape, SavedInv, SavedShape
<1>4. CopyFits(p)'
  <2>1. CASE SaveOpen(p)
    <3>1. Holding(p) /\ stale' = stale
      BY <2>1 DEF SaveOpen, Holding, history
    <3> QED
      BY <1>0, <1>1, <3>1 DEF CopyFits
  <2>2. CASE ~SaveOpen(p)
    <3>1. pc'[p] \in {"begin", "sanitize", "yaml open", "yaml write", "load",
                      "env read", "env open", "env write"}
      BY <2>2 DEF Start, AddCheck, AddOpen, DeleteUnlink, RunSearch, VerifyTokens,
         EnvRead, EnvOpen, Go, IInv, Shape
    <3> QED
      BY <3>1 DEF CopyFits, Holding
  <2> QED
    BY <2>1, <2>2
<1>5. EnvFits(p)'
  <2>1. CASE EnvRead(p)
    <3>1. heldEnv'[p] = env /\ stale'[p] = (IF \E q \in Processes : pc[q] = "env write"
                                            THEN EnvKeys ELSE {})
      BY <2>1 DEF EnvRead, SavedInv, SavedShape
    <3>2. (\A q \in Processes : pc[q] # "env write") =>
            \A k \in EnvKeys \ lost : env[k] = savedEnv[k]
      BY DEF SavedInv, FilesFit
    <3> QED
      BY <1>1, <3>1, <3>2 DEF EnvFits
  <2>2. CASE EnvOpen(p)
    <3>1. HoldingEnv(p) /\ heldEnv' = heldEnv /\ stale' = stale
      BY <2>2 DEF EnvOpen, HoldingEnv, history
    <3> QED
      BY <1>0, <1>1, <3>1 DEF EnvFits
  <2>3. CASE ~EnvRead(p) /\ ~EnvOpen(p)
    <3>1. pc'[p] \in {"begin", "sanitize", "yaml open", "yaml write", "load",
                      "env read", "write", "sanitize write"}
      BY <2>3 DEF Start, AddCheck, AddOpen, DeleteUnlink, RunSearch, VerifyTokens,
         SaveOpen, Go, IInv, Shape
    <3> QED
      BY <3>1 DEF EnvFits, HoldingEnv
  <2> QED
    BY <2>1, <2>2, <2>3
<1>6. JobFits(p)'
  <2>1. CASE Start(p)
    <3>1. pc'[p] \in {"begin", "sanitize"} /\ job'[p] \in agenda
      BY <2>1 DEF Start, Go, IInv, Shape
    <3> QED
      BY <1>0, <3>1, CatalogueAssumption DEF JobFits
  <2>2. CASE RunSearch(p)
    <3>1. pc'[p] = "load" /\ job'[p].id = job[p].id /\ job[p].kind = "run"
      BY <2>2 DEF RunSearch, Go, IInv, Shape
    <3> QED
      BY <1>0, <3>1 DEF JobFits
  <2>3. CASE VerifyTokens(p)
    <3>1. PICK refused \in SUBSET DOMAIN job[p].updates :
            /\ ~Refuses(refused, job[p].updates)
            /\ job' = [job EXCEPT ![p] = [kind |-> "tokens", updates |-> @.updates,
                                          accepted |-> refused = {}]]
      BY <2>3 DEF VerifyTokens
    <3>2. (refused = {}) = TRUE
      BY <3>1 DEF Refuses
    <3>3. job' = [job EXCEPT ![p] = [kind |-> "tokens", updates |-> @.updates,
                                     accepted |-> TRUE]]
      BY <3>1, <3>2
    <3>4. job'[p].kind = "tokens" /\ job'[p].accepted = TRUE
      BY <3>3 DEF IInv, Shape
    <3> QED
      BY <3>4 DEF JobFits
  <2>4. CASE EnvRead(p) \/ EnvOpen(p)
    <3>1. job' = job /\ pc[p] \in {"env read", "env open"}
      BY <2>4 DEF EnvRead, EnvOpen
    <3> QED
      BY <1>0, <3>1 DEF JobFits
  <2>5. CASE SaveOpen(p) \/ AddCheck(p) \/ AddOpen(p) \/ DeleteUnlink(p)
    <3>1. job' = job /\ pc'[p] \in {"write", "sanitize write", "yaml open", "yaml write",
                                    "load"}
      BY <2>5 DEF SaveOpen, AddCheck, AddOpen, DeleteUnlink, locals, Go, IInv, Shape
    <3> QED
      BY <1>0, <3>1 DEF JobFits
  <2> QED
    BY <2>1, <2>2, <2>3, <2>4, <2>5
<1>7. env' = env \/ pc'[p] = "env write"
  BY <1>1 DEF EnvOpen, Go, IInv, Shape
<1> QED
  BY <1>1, <1>2, <1>3, <1>4, <1>5, <1>6, <1>7, NothingSaved

\* A strategy's file is written: the configuration and .env are left alone.
LEMMA AddWriteKeeps ==
  ASSUME IInv, SavedInv, NEW p \in Processes, AddWrite(p)
  PROVE  SavedInv'
<1>1. /\ Finished(p) /\ pc[p] = "yaml write"
      /\ UNCHANGED <<config, env, saved, savedEnv, stale, lost>>
  BY DEF AddWrite
<1>2. /\ pc'[p] = "idle" /\ job'[p].kind = "none" /\ agenda' = agenda
      /\ pc' = [pc EXCEPT ![p] = pc'[p]] /\ job' = [job EXCEPT ![p] = job'[p]]
      /\ held' = [held EXCEPT ![p] = held'[p]]
      /\ heldEnv' = [heldEnv EXCEPT ![p] = heldEnv'[p]]
      /\ stale' = [stale EXCEPT ![p] = stale'[p]]
  BY <1>1 DEF Finished, Go, IInv, Shape, SavedInv, SavedShape
<1>3. CopyFits(p)' /\ EnvFits(p)' /\ JobFits(p)'
  BY <1>2 DEF CopyFits, EnvFits, JobFits, Holding, HoldingEnv
<1> QED
  BY <1>1, <1>2, <1>3, NothingSaved

LEMMA SavedIsKept ==
  ASSUME IInv, SavedInv, [CatalogueNext]_catalogueVars
  PROVE  SavedInv'
<1>1. CASE UNCHANGED catalogueVars
  BY <1>1 DEF catalogueVars, SavedInv, SavedShape, FilesFit, CopyFits, EnvFits, JobFits,
              Holding, HoldingEnv, Agrees
<1>2. ASSUME NEW p \in Processes, SanitizeLoad(p) \/ LoadConfig(p) PROVE SavedInv'
  <2>1. /\ Load(p) /\ pc[p] # "env write"
        /\ \E to \in {"begin", "sanitize open", "open"} : Go(p, to)
    BY <1>2 DEF SanitizeLoad, LoadConfig
  <2> QED
    BY <2>1, LoadKeeps
<1> QED
  BY <1>1, <1>2, FailKeeps, SaveKeeps, EnvWriteKeeps, QuietKeeps, AddWriteKeeps
     DEF CatalogueNext

\* Whatever commands cross, die or fail, a setting, the overrides of a strategy or a
\* token that was saved is there until the same is saved again, unless an older copy
\* was written over it (save_config, write_env_file); refused tokens are not saved.
THEOREM SavesAreKept == CatalogueSpec => []SavesSurvive
<1>1. SavedInv => SavesSurvive
  BY DEF SavedInv, FilesFit, Agrees, SavesSurvive
<1> QED
  BY <1>1, CopiesAreGood, SavedStarts, SavedIsKept, PTL DEF CatalogueSpec

-----------------------------------------------------------------------------
(***************************************************************************)
(* The overrides of a strategy are of its present text.  What was saved    *)
(* last is of the text that is in the file, but for ids that are lost or   *)
(* orphaned; a run saves what it has found for the text it registered, and *)
(* marks its id when that is no longer the text in the file.               *)
(***************************************************************************)
Readable(text) == text \in DOMAIN Texts /\ FromDict(text)

LEMMA TextsAreSound ==
  ASSUME NEW text \in DOMAIN Texts
  PROVE  /\ Texts[text].id \in Ids
         /\ FromDict(text) => Fits(text, Texts[text].defaults) /\ OrderSizesFit(text)
BY CatalogueAssumption

\* What a process adds, and what a run has registered and found, is of readable texts.
TextsOf(p) ==
  /\ \A s \in Ids : known[p][s] # None => Readable(known[p][s])
  /\ job[p].kind = "add" => job[p].text \in DOMAIN Texts
  /\ pc[p] \in {"yaml open", "yaml write"} => job[p].kind = "add" /\ FromDict(job[p].text)
  /\ pc[p] \in {"load", "open", "write"} /\ job[p].kind = "run" =>
       /\ Readable(known[p][job[p].id])
       /\ job[p].best \in Assignments(known[p][job[p].id])

YamlShape ==
  /\ yaml = [s \in Ids |-> yaml[s]]
  /\ known = [p \in Processes |-> known[p]]
  /\ \A s \in Ids : yaml[s] \in {None, Torn} \/ Readable(yaml[s])

SavedOfText == \A s \in Ids \ (lost \cup orphaned) : OfText(yaml[s], saved.overrides[s])

TextsInv == YamlShape /\ SavedOfText /\ \A p \in Processes : TextsOf(p)

LEMMA TextsStart == CatalogueInit => TextsInv
<1> SUFFICES ASSUME CatalogueInit PROVE TextsInv
  OBVIOUS
<1>1. YamlShape
  BY CatalogueAssumption DEF CatalogueInit, YamlShape, Readable
<1>2. SavedOfText
  <2>1. PICK o \in InitialOverrides : config = [settings |-> InitialSettings, overrides |-> o]
    BY DEF CatalogueInit
  <2>2. saved.overrides = o /\ yaml = InitialYaml
    BY <2>1 DEF CatalogueInit
  <2> QED
    BY <2>2, CatalogueAssumption DEF SavedOfText
<1>3. \A p \in Processes : TextsOf(p)
  BY DEF CatalogueInit, TextsOf
<1> QED
  BY <1>1, <1>2, <1>3 DEF TextsInv

\* What the engine sees of overrides: a switch is not seen, nor a second repair.
LEMMA RunParamsOfEnabled ==
  ASSUME NEW o, NEW on
  PROVE  RunParams(Over([key \in {"enabled"} |-> on], o)) = RunParams(o)
BY DEF RunParams, Normalized, Over

LEMMA RunParamsOfNormalized ==
  ASSUME NEW o
  PROVE  RunParams(Normalized(o)) = RunParams(o)
BY DEF RunParams, Normalized, OrderSizeClamped, OrderSizeMax

\* Overrides of a text, updated by an assignment of it, are of the text.
LEMMA UpdatedFits ==
  ASSUME NEW text \in DOMAIN Texts, FromDict(text), NEW best \in Assignments(text), NEW o,
         Fits(text, RunParams(o))
  PROVE  Fits(text, RunParams(Over(Normalized(best), o)))
<1> DEFINE params == Texts[text].params
           new == RunParams(Over(Normalized(best), o))
<1>1. /\ DOMAIN best = DOMAIN params
      /\ \A p \in DOMAIN best : best[p] \in params[p]
  BY DEF Assignments
<1>2. DOMAIN RunParams(o) \subseteq DOMAIN params
  BY DEF Fits
<1>3. /\ DOMAIN RunParams(o) = DOMAIN o \ {"enabled"}
      /\ DOMAIN new = (DOMAIN best \cup DOMAIN o) \ {"enabled"}
  BY DEF RunParams, Normalized, Over
<1>4. ASSUME NEW p \in DOMAIN new PROVE new[p] \in params[p]
  <2>1. p \in DOMAIN best
    BY <1>1, <1>2, <1>3
  <2>2. CASE p = "order_size"
    <3>1. best[p] \in params[p] /\ params[p] \subseteq 1..OrderSizeMax
      <4>1. OrderSizesFit(text)
        BY TextsAreSound
      <4> QED
        BY <1>1, <2>1, <2>2, <4>1 DEF OrderSizesFit
    <3>2. OrderSizeClamped(best[p]) = best[p]
      BY <3>1 DEF OrderSizeClamped, OrderSizeMax
    <3>3. new[p] = OrderSizeClamped(OrderSizeClamped(best[p]))
      BY <1>3, <2>1, <2>2 DEF RunParams, Normalized, Over
    <3> QED
      BY <3>1, <3>2, <3>3
  <2>3. CASE p # "order_size"
    BY <1>1, <1>3, <2>1, <2>3 DEF RunParams, Normalized, Over
  <2> QED
    BY <2>2, <2>3
<1> QED
  BY <1>1, <1>2, <1>3, <1>4 DEF Fits

\* A step of one process: the texts of the others stay as they are.
LEMMA TextsOfOthers ==
  ASSUME IInv, TextsInv, NEW p \in Processes,
         pc' = [pc EXCEPT ![p] = pc'[p]],
         job' = [job EXCEPT ![p] = job'[p]],
         known' = [known EXCEPT ![p] = known'[p]],
         TextsOf(p)',
         yaml' = [s \in Ids |-> yaml'[s]],
         \A s \in Ids : yaml'[s] \in {yaml[s], None, Torn} \/ Readable(yaml'[s]),
         SavedOfText'
  PROVE  TextsInv'
<1>1. ASSUME NEW q \in Processes, q # p PROVE TextsOf(q)'
  <2>1. pc'[q] = pc[q] /\ job'[q] = job[q] /\ known'[q] = known[q]
    BY <1>1 DEF IInv, Shape, TextsInv, YamlShape
  <2> QED
    BY <2>1 DEF TextsInv, TextsOf
<1>2. YamlShape'
  BY DEF TextsInv, YamlShape
<1> QED
  BY <1>1, <1>2 DEF TextsInv

\* A step that changes no file of a strategy and saves no overrides.
LEMMA NoTextChanged ==
  ASSUME IInv, TextsInv, NEW p \in Processes,
         pc' = [pc EXCEPT ![p] = pc'[p]],
         job' = [job EXCEPT ![p] = job'[p]],
         known' = [known EXCEPT ![p] = known'[p]],
         TextsOf(p)',
         UNCHANGED <<yaml, saved, orphaned>>, lost \subseteq lost'
  PROVE  TextsInv'
<1>1. SavedOfText'
  BY DEF TextsInv, SavedOfText
<1> QED
  BY <1>1, TextsOfOthers DEF TextsInv, YamlShape

\* A process that ends has no text left.
LEMMA EndsWithoutTexts ==
  ASSUME IInv, TextsInv, NEW p \in Processes, Finished(p)
  PROVE  /\ pc' = [pc EXCEPT ![p] = pc'[p]]
         /\ job' = [job EXCEPT ![p] = job'[p]]
         /\ known' = [known EXCEPT ![p] = known'[p]]
         /\ TextsOf(p)'
<1>1. /\ pc' = [pc EXCEPT ![p] = "idle"]
      /\ job' = [job EXCEPT ![p] = [kind |-> "none"]]
      /\ known' = [known EXCEPT ![p] = [s \in Ids |-> None]]
  BY DEF Finished, Go
<1>2. /\ pc'[p] = "idle" /\ job'[p].kind = "none"
      /\ known'[p] = [s \in Ids |-> None]
  BY <1>1 DEF IInv, Shape, TextsInv, YamlShape
<1> QED
  BY <1>1, <1>2 DEF TextsOf

\* The file of a strategy is truncated, written or removed.
LEMMA AddOpenTexts ==
  ASSUME IInv, TextsInv, NEW p \in Processes, AddOpen(p)
  PROVE  TextsInv'
<1> DEFINE id == Texts[job[p].text].id
<1>1. job[p].kind = "add" /\ job[p].text \in DOMAIN Texts /\ FromDict(job[p].text)
  BY DEF AddOpen, TextsInv, TextsOf
<1>2. id \in Ids
  BY <1>1, TextsAreSound
<1>3. /\ yaml' = [yaml EXCEPT ![id] = Torn]
      /\ orphaned' = IF yaml[id] \in {None, Torn} THEN orphaned ELSE orphaned \cup {id}
      /\ pc' = [pc EXCEPT ![p] = "yaml write"]
      /\ UNCHANGED <<job, known, saved, lost>>
  BY DEF AddOpen, Go
<1> HIDE DEF id
<1>4. pc'[p] = "yaml write" /\ pc' = [pc EXCEPT ![p] = pc'[p]]
  BY <1>3 DEF IInv, Shape
<1>5. TextsOf(p)'
  BY <1>1, <1>3, <1>4 DEF TextsInv, TextsOf
<1>6. SavedOfText'
  <2> SUFFICES ASSUME NEW s \in Ids, s \notin lost', s \notin orphaned'
               PROVE  OfText(yaml'[s], saved'.overrides[s])
    BY DEF SavedOfText
  <2>1. OfText(yaml[s], saved.overrides[s])
    BY <1>3 DEF TextsInv, SavedOfText
  <2>2. CASE s = id
    BY <1>3, <2>1, <2>2, CatalogueAssumption DEF OfText, TextsInv, YamlShape
  <2>3. CASE s # id
    BY <1>3, <2>1, <2>3 DEF TextsInv, YamlShape
  <2> QED
    BY <2>2, <2>3
<1>7. yaml' = [s \in Ids |-> yaml'[s]] /\ \A s \in Ids : yaml'[s] \in {yaml[s], Torn}
  BY <1>3 DEF TextsInv, YamlShape
<1>8. job' = [job EXCEPT ![p] = job'[p]] /\ known' = [known EXCEPT ![p] = known'[p]]
  BY <1>3 DEF IInv, Shape, TextsInv, YamlShape
<1> QED
  BY <1>4, <1>5, <1>6, <1>7, <1>8, TextsOfOthers

LEMMA AddWriteTexts ==
  ASSUME IInv, TextsInv, NEW p \in Processes, AddWrite(p)
  PROVE  TextsInv'
<1> DEFINE id == Texts[job[p].text].id
<1>1. job[p].kind = "add" /\ Readable(job[p].text)
  BY DEF AddWrite, TextsInv, TextsOf, Readable
<1>2. id \in Ids
  BY <1>1, TextsAreSound DEF Readable
<1>3. PICK text \in {job[p].text, Torn, yaml[id]} : yaml' = [yaml EXCEPT ![id] = text]
  BY DEF AddWrite
<1>4. /\ orphaned' = IF yaml[id] \in {Torn, yaml'[id]} THEN orphaned ELSE orphaned \cup {id}
      /\ Finished(p)
      /\ UNCHANGED <<saved, lost>>
  BY DEF AddWrite
<1> HIDE DEF id
<1>5. yaml'[id] = text /\ \A s \in Ids \ {id} : yaml'[s] = yaml[s]
  BY <1>2, <1>3 DEF TextsInv, YamlShape
<1>6. SavedOfText'
  <2> SUFFICES ASSUME NEW s \in Ids, s \notin lost', s \notin orphaned'
               PROVE  OfText(yaml'[s], saved'.overrides[s])
    BY DEF SavedOfText
  <2>1. OfText(yaml[s], saved.overrides[s])
    BY <1>4 DEF TextsInv, SavedOfText
  <2>2. CASE s = id
    <3>1. yaml[s] \in {Torn, text}
      BY <1>4, <1>5, <2>2
    <3>2. CASE yaml[s] = Torn
      <4>1. DOMAIN RunParams(saved.overrides[s]) = {}
        BY <2>1, <3>2, CatalogueAssumption DEF OfText
      <4> QED
        BY <1>4, <4>1 DEF OfText, Fits
    <3>3. CASE yaml[s] = text
      BY <1>4, <1>5, <2>1, <2>2, <3>3
    <3> QED
      BY <3>1, <3>2, <3>3
  <2>3. CASE s # id
    BY <1>4, <1>5, <2>1, <2>3
  <2> QED
    BY <2>2, <2>3
<1>7. /\ yaml' = [s \in Ids |-> yaml'[s]]
      /\ \A s \in Ids : yaml'[s] \in {yaml[s], Torn} \/ Readable(yaml'[s])
  BY <1>1, <1>3, <1>5 DEF TextsInv, YamlShape
<1> QED
  BY <1>4, <1>6, <1>7, EndsWithoutTexts, TextsOfOthers

LEMMA DeleteUnlinkTexts ==
  ASSUME IInv, TextsInv, NEW p \in Processes, DeleteUnlink(p)
  PROVE  TextsInv'
<1> DEFINE id == job[p].id
<1>1. /\ yaml' = [yaml EXCEPT ![id] = None]
      /\ orphaned' = orphaned \cup {id}
      /\ pc' = [pc EXCEPT ![p] = "load"] /\ job[p].kind = "delete"
      /\ UNCHANGED <<job, known, saved, lost>>
  BY DEF DeleteUnlink, Go, locals
<1> HIDE DEF id
<1>2. pc'[p] = "load" /\ pc' = [pc EXCEPT ![p] = pc'[p]]
  BY <1>1 DEF IInv, Shape
<1>3. TextsOf(p)'
  BY <1>1, <1>2 DEF TextsInv, TextsOf
<1>4. /\ yaml' = [s \in Ids |-> yaml'[s]]
      /\ \A s \in Ids : yaml'[s] \in {yaml[s], None}
      /\ \A s \in Ids : s # id => yaml'[s] = yaml[s]
  BY <1>1 DEF TextsInv, YamlShape
<1>5. SavedOfText'
  BY <1>1, <1>4 DEF TextsInv, SavedOfText
<1>6. job' = [job EXCEPT ![p] = job'[p]] /\ known' = [known EXCEPT ![p] = known'[p]]
  BY <1>1 DEF IInv, Shape, TextsInv, YamlShape
<1> QED
  BY <1>2, <1>3, <1>4, <1>5, <1>6, TextsOfOthers

\* A save of the configuration by a process: it saves overrides of the present text.
LEMMA SaveWriteTexts ==
  ASSUME IInv, SavedInv, TextsInv, NEW p \in Processes, SaveWrite(p)
  PROVE  TextsInv'
<1> DEFINE j == Current(p)
           done == Changed(j, held[p])
<1>1. pc[p] \in {"write", "sanitize write"}
  BY DEF SaveWrite
<1>2. /\ j.kind \in {"settings", "enable", "delete", "run", "sanitize"}
      /\ j.kind = "delete" => j.id \in Ids
      /\ j.kind = "run" => pc[p] = "write" /\ j = job[p] /\ j.id \in Ids
  BY <1>1 DEF Current, SanitizedJob, IInv, Copies, Ready, SavedInv, JobFits
<1>3. /\ lost' = (lost \cup stale[p]) \ (IF j.kind = "delete" THEN {j.id} ELSE {})
      /\ saved' = [settings |-> IF "settings" \in lost' THEN done.settings
                                ELSE Changed(j, saved).settings,
                   overrides |-> [s \in Ids |-> IF s \in lost' THEN done.overrides[s]
                                                ELSE Changed(j, saved).overrides[s]]]
      /\ orphaned' = CASE j.kind = "delete" -> orphaned \ {j.id}
                       [] j.kind = "run" /\ known[p][j.id] # yaml[j.id] -> orphaned \cup {j.id}
                       [] OTHER -> orphaned
      /\ yaml' = yaml
  BY DEF SaveWrite
<1>4. Whole(saved)
  BY DEF SavedInv, SavedShape
<1> HIDE DEF j, done
<1>5. SavedOfText'
  <2> SUFFICES ASSUME NEW s \in Ids, s \notin lost', s \notin orphaned'
               PROVE  OfText(yaml[s], Changed(j, saved).overrides[s])
    BY <1>3 DEF SavedOfText
  <2>1. CASE j.kind = "delete" /\ j.id = s
    <3>1. Changed(j, saved).overrides[s] = <<>>
      BY <1>4, <2>1 DEF Changed, Dropped, Whole
    <3>2. DOMAIN RunParams(<<>>) = {}
      BY DEF RunParams, Normalized
    <3> QED
      BY <3>1, <3>2 DEF OfText, Fits
  <2>2. CASE ~(j.kind = "delete" /\ j.id = s)
    <3>1. s \notin lost /\ s \notin orphaned
      BY <1>2, <1>3, <2>2
    <3>2. OfText(yaml[s], saved.overrides[s])
      BY <3>1 DEF TextsInv, SavedOfText
    <3>3. CASE j.kind = "sanitize"
      <4>1. Changed(j, saved).overrides[s] = Normalized(saved.overrides[s])
        BY <1>4, <3>3 DEF Changed, Sanitized, Whole
      <4> QED
        BY <3>2, <4>1, RunParamsOfNormalized DEF OfText
    <3>4. CASE j.kind = "enable" /\ j.id = s
      <4>1. Changed(j, saved).overrides[s] =
              Over([key \in {"enabled"} |-> j.on], saved.overrides[s])
        BY <1>4, <3>4 DEF Changed, Enabled, Whole
      <4> QED
        BY <3>2, <4>1, RunParamsOfEnabled DEF OfText
    <3>5. CASE j.kind = "run" /\ j.id = s
      <4>1. Changed(j, saved).overrides[s] = Over(Normalized(j.best), saved.overrides[s])
        BY <1>4, <3>5 DEF Changed, Updated, Whole
      <4>2. known[p][s] = yaml[s]
        BY <1>3, <3>5
      <4>3. /\ yaml[s] \in DOMAIN Texts /\ FromDict(yaml[s])
            /\ j.best \in Assignments(yaml[s])
        BY <1>2, <3>5, <4>2 DEF TextsInv, TextsOf, Readable
      <4>4. Fits(yaml[s], RunParams(saved.overrides[s]))
        BY <3>2, <4>3 DEF OfText
      <4> QED
        BY <4>1, <4>3, <4>4, UpdatedFits DEF OfText
    <3>6. CASE j.kind = "settings" \/ (j.kind \in {"enable", "run", "delete"} /\ j.id # s)
      <4>1. Changed(j, saved).overrides[s] = saved.overrides[s]
        BY <1>4, <3>6 DEF Changed, Reset, Enabled, Updated, Dropped, Whole
      <4> QED
        BY <3>2, <4>1
    <3> QED
      BY <1>2, <2>2, <3>3, <3>4, <3>5, <3>6
  <2> QED
    BY <2>1, <2>2
<1>6. /\ pc' = [pc EXCEPT ![p] = pc'[p]]
      /\ job' = [job EXCEPT ![p] = job'[p]]
      /\ known' = [known EXCEPT ![p] = known'[p]]
      /\ TextsOf(p)'
  <2>1. CASE pc[p] = "sanitize write"
    <3>1. pc' = [pc EXCEPT ![p] = "begin"] /\ UNCHANGED <<job, known>>
      BY <2>1 DEF SaveWrite, Go
    <3>2. pc'[p] = "begin"
      BY <3>1 DEF IInv, Shape
    <3> QED
      BY <3>1, <3>2 DEF IInv, Shape, TextsInv, YamlShape, TextsOf
  <2>2. CASE pc[p] # "sanitize write"
    BY <2>2, EndsWithoutTexts DEF SaveWrite
  <2> QED
    BY <2>1, <2>2
<1>7. yaml' = [s \in Ids |-> yaml'[s]] /\ \A s \in Ids : yaml'[s] = yaml[s]
  BY <1>3 DEF TextsInv, YamlShape
<1> QED
  BY <1>5, <1>6, <1>7, TextsOfOthers

\* The steps that neither touch the file of a strategy nor save overrides.
LEMMA OtherStepsTexts ==
  ASSUME IInv, SavedInv, TextsInv, NEW p \in Processes,
         \/ Start(p) \/ SanitizeLoad(p) \/ LoadConfig(p) \/ SaveOpen(p) \/ AddCheck(p)
         \/ RunSearch(p) \/ VerifyTokens(p) \/ EnvRead(p) \/ EnvOpen(p)
  PROVE  TextsInv'
<1>1. /\ UNCHANGED <<yaml, saved, orphaned, lost>>
      /\ pc' = [pc EXCEPT ![p] = pc'[p]]
  BY DEF Start, SanitizeLoad, LoadConfig, Load, SaveOpen, AddCheck, RunSearch,
         VerifyTokens, EnvRead, EnvOpen, Go, files, locals, history, IInv, Shape
<1>2. /\ job' = [job EXCEPT ![p] = job'[p]]
      /\ known' = [known EXCEPT ![p] = known'[p]]
  <2>1. (known' = known /\ job' = job) \/ Start(p) \/ RunSearch(p) \/ VerifyTokens(p)
    BY DEF SanitizeLoad, LoadConfig, Load, SaveOpen, AddCheck, EnvRead, EnvOpen, locals
  <2> QED
    BY <2>1 DEF Start, RunSearch, VerifyTokens, IInv, Shape, TextsInv, YamlShape
<1>3. TextsOf(p)'
  <2>0. TextsOf(p) /\ JobFits(p) /\ agenda \in Agendas
    BY DEF TextsInv, SavedInv, SavedShape
  <2>1. CASE Start(p)
    <3>1. PICK j \in agenda :
            /\ job' = [job EXCEPT ![p] = j]
            /\ known' = [known EXCEPT ![p] = IF j.kind = "run" THEN Discovered ELSE @]
      BY <2>1 DEF Start
    <3>2. /\ job'[p] = j /\ known'[p] = IF j.kind = "run" THEN Discovered ELSE known[p]
          /\ pc'[p] \in {"begin", "sanitize"}
      BY <2>1, <3>1 DEF Start, Go, IInv, Shape, TextsInv, YamlShape
    <3>3. \A s \in Ids : Discovered[s] # None => Readable(Discovered[s])
      BY DEF Discovered, TextsInv, YamlShape
    <3>4. j.kind = "add" => j.text \in DOMAIN Texts
      <4>1. \A jobs \in Agendas : \A k \in jobs :
              /\ k.kind \in {"enable", "delete", "run"} => k.id \in Ids
              /\ k.kind = "add" => k.text \in DOMAIN Texts
        BY Zenon, CatalogueAssumption
      <4> QED
        BY <2>0, <4>1
    <3> QED
      BY <2>0, <3>2, <3>3, <3>4 DEF TextsOf
  <2>2. CASE RunSearch(p)
    <3>1. /\ known[p][job[p].id] # None /\ job[p].id \in Ids
          /\ \E best \in Assignments(known[p][job[p].id]) :
               job' = [job EXCEPT ![p] = [kind |-> "run", id |-> job[p].id, best |-> best]]
          /\ known' = known /\ pc' = [pc EXCEPT ![p] = "load"]
      BY <2>0, <2>2 DEF RunSearch, Go, JobFits
    <3>2. /\ job'[p].kind = "run" /\ job'[p].id = job[p].id /\ pc'[p] = "load"
          /\ job'[p].best \in Assignments(known[p][job[p].id])
      BY <3>1 DEF IInv, Shape
    <3>3. Readable(known[p][job[p].id])
      BY <2>0, <3>1 DEF TextsOf
    <3> QED
      BY <2>0, <3>1, <3>2, <3>3 DEF TextsOf
  <2>3. CASE VerifyTokens(p)
    <3>1. known' = known /\ pc'[p] = "env read"
      BY <2>3 DEF VerifyTokens, Go, IInv, Shape
    <3>2. job'[p].kind = "tokens"
      <4>1. PICK refused \in SUBSET DOMAIN job[p].updates :
              /\ ~Refuses(refused, job[p].updates)
              /\ job' = [job EXCEPT ![p] = [kind |-> "tokens", updates |-> @.updates,
                                            accepted |-> refused = {}]]
        BY <2>3 DEF VerifyTokens
      <4>2. (refused = {}) = TRUE
        BY <4>1 DEF Refuses
      <4> QED
        BY <4>1, <4>2 DEF IInv, Shape
    <3> QED
      BY <2>0, <3>1, <3>2 DEF TextsOf
  <2>4. CASE AddCheck(p)
    <3>1. /\ known' = known /\ job' = job /\ pc'[p] = "yaml open"
          /\ job[p].kind = "add" /\ FromDict(job[p].text)
      BY <2>4 DEF AddCheck, ValidText, Go, locals, IInv, Shape
    <3> QED
      BY <2>0, <3>1 DEF TextsOf
  <2>5. CASE SaveOpen(p)
    <3>1. /\ known' = known /\ job' = job
          /\ pc'[p] = (IF pc[p] = "open" THEN "write" ELSE "sanitize write")
      BY <2>5 DEF SaveOpen, Go, IInv, Shape
    <3> QED
      BY <2>0, <2>5, <3>1 DEF TextsOf, SaveOpen
  <2>6. CASE LoadConfig(p)
    <3>1. /\ known' = known /\ job' = job /\ pc'[p] = "open"
          /\ (pc[p] = "begin" /\ job[p].kind \in {"settings", "enable"}) \/ pc[p] = "load"
      BY <2>6 DEF LoadConfig, Load, Go, IInv, Shape
    <3> QED
      BY <2>0, <3>1 DEF TextsOf
  <2>7. CASE SanitizeLoad(p) \/ EnvRead(p) \/ EnvOpen(p)
    <3>1. /\ known' = known /\ job' = job
          /\ pc'[p] \in {"begin", "sanitize open", "env open", "env write"}
      BY <2>7 DEF SanitizeLoad, EnvRead, EnvOpen, Load, Go, IInv, Shape
    <3> QED
      BY <2>0, <3>1 DEF TextsOf
  <2> QED
    BY <2>1, <2>2, <2>3, <2>4, <2>5, <2>6, <2>7
<1> QED
  BY <1>1, <1>2, <1>3, NoTextChanged

LEMMA TextsAreKept ==
  ASSUME IInv, SavedInv, TextsInv, [CatalogueNext]_catalogueVars
  PROVE  TextsInv'
<1>1. CASE UNCHANGED catalogueVars
  BY <1>1 DEF catalogueVars, TextsInv, YamlShape, SavedOfText, TextsOf
<1>2. ASSUME NEW p \in Processes, Fail(p) \/ EnvWrite(p) PROVE TextsInv'
  <2>1. Finished(p) /\ UNCHANGED <<yaml, saved, orphaned>> /\ lost \subseteq lost'
    BY <1>2 DEF Fail, EnvWrite, files
  <2> QED
    BY <2>1, EndsWithoutTexts, NoTextChanged
<1> QED
  BY <1>1, <1>2, AddOpenTexts, AddWriteTexts, DeleteUnlinkTexts, SaveWriteTexts,
     OtherStepsTexts DEF CatalogueNext

\* What a run starts with: overrides of the text, and its defaults, which fit it.
LEMMA MergedFits ==
  ASSUME NEW text \in DOMAIN Texts, FromDict(text), NEW o, Fits(text, RunParams(o))
  PROVE  Fits(text, RunParams(Merged(text, o)))
<1> DEFINE params == Texts[text].params
           defaults == Texts[text].defaults
           merged == Merged(text, o)
           run == RunParams(merged)
<1>1. /\ DOMAIN defaults \subseteq DOMAIN params
      /\ \A p \in DOMAIN defaults : defaults[p] \in params[p]
  BY TextsAreSound DEF Fits
<1>2. /\ DOMAIN o \ {"enabled"} \subseteq DOMAIN params
      /\ \A p \in DOMAIN o \ {"enabled"} : RunParams(o)[p] \in params[p]
  BY DEF Fits, RunParams, Normalized
<1>3. DOMAIN run = (DOMAIN o \cup DOMAIN defaults) \ {"enabled"}
  BY DEF Merged, RunParams, Normalized, Over
<1>4. ASSUME NEW p \in DOMAIN run PROVE run[p] \in params[p]
  <2>1. CASE p \in DOMAIN o
    <3>1. run[p] = RunParams(o)[p]
      BY <1>3, <2>1 DEF Merged, RunParams, Normalized, Over
    <3> QED
      BY <1>2, <1>3, <2>1, <3>1
  <2>2. CASE p \notin DOMAIN o
    <3>1. p \in DOMAIN defaults /\ defaults[p] \in params[p]
      BY <1>1, <1>3, <2>2
    <3>2. run[p] = IF p = "order_size" THEN OrderSizeClamped(defaults[p]) ELSE defaults[p]
      BY <1>3, <2>2, <3>1 DEF Merged, RunParams, Normalized, Over
    <3>3. p = "order_size" => OrderSizeClamped(defaults[p]) = defaults[p]
      <4>1. OrderSizesFit(text)
        BY TextsAreSound
      <4> QED
        BY <1>1, <3>1, <4>1 DEF OrderSizesFit, OrderSizeClamped, OrderSizeMax
    <3> QED
      BY <3>1, <3>2, <3>3
  <2> QED
    BY <2>1, <2>2
<1> QED
  BY <1>1, <1>2, <1>3, <1>4 DEF Fits

\* Whatever is added, deleted, run and saved at once, the overrides of a strategy are
\* accepted by the text that is in its file now (merge_strategy_params, resolve_params);
\* an id is excepted when its text was replaced under a run of it or damaged, or an
\* older copy of the configuration was written.
THEOREM OverridesAreOfTheText == CatalogueSpec => []OverridesFit
<1>1. ASSUME IInv, SavedInv, TextsInv PROVE OverridesFit
  <2> SUFFICES ASSUME config # Torn, NEW s \in Ids, s \notin lost, s \notin orphaned,
                      Discovered[s] # None
               PROVE  Fits(Discovered[s], RunParams(Merged(Discovered[s], config.overrides[s])))
    BY DEF OverridesFit
  <2>1. Discovered[s] = yaml[s] /\ Readable(yaml[s])
    BY <1>1 DEF Discovered, TextsInv, YamlShape
  <2>2. config.overrides[s] = saved.overrides[s]
    BY <1>1 DEF SavedInv, FilesFit, Agrees
  <2>3. Fits(yaml[s], RunParams(config.overrides[s]))
    BY <1>1, <2>1, <2>2 DEF TextsInv, SavedOfText, OfText, Readable
  <2> QED
    BY <2>1, <2>3, MergedFits DEF Readable
<1>2. CatalogueSpec => []TextsInv
  BY CopiesAreGood, SavedStarts, SavedIsKept, TextsStart, TextsAreKept, PTL DEF CatalogueSpec
<1> QED
  BY <1>1, <1>2, CopiesAreGood, SavedStarts, SavedIsKept, PTL DEF CatalogueSpec

===============================================================================
