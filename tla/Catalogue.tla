------------------------------- MODULE Catalogue -------------------------------
(***************************************************************************)
(* The files that hold what the user has chosen: config/dashboard.json     *)
(* (settings and overrides of strategy parameters), the strategies in      *)
(* config/strategies, and .env (tokens).  Every command is a process of    *)
(* main.py that reads a file, changes its copy and writes all of it back   *)
(* in place: the open that truncates and the write are steps, and nothing  *)
(* locks.  A run of a strategy does the same with the best parameters it   *)
(* has found, long after it has read the definition.                       *)
(*                                                                         *)
(* A text is a YAML file: an id, and the values its parameters may take.   *)
(***************************************************************************)
EXTENDS Settings, Listing

CONSTANTS
  Processes,
  Agendas,             \* sets of commands that are given, with their arguments
  Ids,                 \* strategy ids
  Texts,               \* the YAML texts that may be added, by name
  InitialSettings,
  InitialYaml,         \* the strategies that are there already
  InitialOverrides,    \* the overrides that may be there already
  EnvKeys,             \* the keys of .env
  None,
  Torn                 \* a file that was truncated, or written by two at once

OrderSizeMax == 3
Lightweight == {"enable"}

VARIABLES
  config,              \* settings and overrides, or Torn
  yaml,                \* the text in the file of each id, None or Torn
  env,                 \* .env: a value or None for each key
  agenda,              \* the commands that are given
  pc, job,             \* per process: where it is, its command
  known,               \* the texts that a run has registered when it was imported
  held,                \* its copy of the configuration
  heldEnv,             \* its copy of .env
  alone,               \* nobody else has written the file it has open
  linked,              \* the strategy file it has open has not been deleted since
  saved,               \* history: the configuration, had every save been atomic
  savedEnv,            \* history: .env, had every save been atomic
  stale,               \* history: the keys saved since each process read its copy
  lost,                \* history: keys whose last save an older copy has undone
  orphaned             \* history: ids whose overrides may be of another text, or of one
                       \* that was damaged

files == <<config, yaml, env>>
locals == <<agenda, job, known, held, heldEnv, alone, linked>>
history == <<saved, savedEnv, stale, lost, orphaned>>
catalogueVars == <<config, yaml, env, agenda, pc, job, known, held, heldEnv, alone,
                   linked, saved, savedEnv, stale, lost, orphaned>>

-----------------------------------------------------------------------------
(* What the commands do to their copies *)

OrderSizeClamped(size) == IF size > OrderSizeMax \/ size < 1 THEN 1 ELSE size

\* normalize_order_size
Normalized(params) ==
  [p \in DOMAIN params |-> IF p = "order_size" THEN OrderSizeClamped(params[p]) ELSE params[p]]

\* strategy_run_params: the engine does not see `enabled'.
RunParams(params) == Normalized([p \in DOMAIN params \ {"enabled"} |-> params[p]])

StrategyEnabled(params) == "enabled" \in DOMAIN params => params["enabled"] = 1

\* sanitize_config
Sanitized(c) == [c EXCEPT !.overrides = [s \in Ids |-> Normalized(@[s])]]

\* update_config_params
Updated(c, s, params) == [c EXCEPT !.overrides[s] = Over(Normalized(params), @)]

\* set_strategy_enabled
Enabled(c, s, on) == [c EXCEPT !.overrides[s] = Over([key \in {"enabled"} |-> on], @)]

DroppedFile(c, s) == c                  \* mutant: the overrides stay

\* delete_strategy_command
Dropped(c, s) == [c EXCEPT !.overrides[s] = <<>>]

AcceptableAlone(updates, settings) ==   \* mutant: checks only what is given
  "data_source" \in DOMAIN updates =>
    ValidDataSource(NormalSettings(Payload(updates, settings))["data_source"])

\* save_runtime_settings: what would result is brought to its normal form and checked,
\* and then saved.
Acceptable(updates, settings) ==
  ValidRuntimeSettings(NormalSettings(Payload(updates, settings)))
Reset(c, updates) == [c EXCEPT !.settings = NormalSettings(Payload(updates, @))]

Changed(j, c) ==
  CASE j.kind = "settings" -> Reset(c, j.updates)
    [] j.kind = "enable" -> Enabled(c, j.id, j.on)
    [] j.kind = "delete" -> Dropped(c, j.id)
    [] j.kind = "run" -> Updated(c, j.id, j.best)
    [] j.kind = "sanitize" -> Sanitized(c)

\* The keys of the configuration that a job saves.
KeysOf(j, c) ==
  CASE j.kind = "settings" -> {"settings"}
    [] j.kind = "sanitize" -> {s \in Ids : Normalized(c.overrides[s]) # c.overrides[s]}
    [] OTHER -> {j.id}

\* write_env_file
EnvWith(e, updates) == [k \in EnvKeys |-> IF k \in DOMAIN updates THEN updates[k] ELSE e[k]]
EmptyEnv == [k \in EnvKeys |-> None]
NoCopy == [settings |-> InitialSettings, overrides |-> [s \in Ids |-> <<>>]]

\* discover_strategy_manifests and the discovery at import: an empty file is skipped.
Discovered == [s \in Ids |-> IF yaml[s] = Torn THEN None ELSE yaml[s]]

\* The assignments that a search of a text may find best.
Assignments(text) ==
  {f \in [DOMAIN Texts[text].params ->
            UNION {Texts[text].params[p] : p \in DOMAIN Texts[text].params}] :
     \A p \in DOMAIN f : f[p] \in Texts[text].params[p]}

\* merge_strategy_params: what a run of the strategy starts with.
Merged(text, overrides) ==
  Over(overrides, Over(Texts[text].defaults, [key \in {"enabled"} |-> 1]))

\* resolve_params accepts them: nothing unknown, everything a choice.
Fits(text, params) ==
  /\ DOMAIN params \subseteq DOMAIN Texts[text].params
  /\ \A p \in DOMAIN params : params[p] \in Texts[text].params[p]

\* Overrides that belong to the text in a file: there are none when there is no text.
OfText(text, overrides) ==
  IF text \in DOMAIN Texts THEN Fits(text, RunParams(overrides))
  ELSE DOMAIN RunParams(overrides) = {}

OrderSizesFit(text) ==
  "order_size" \in DOMAIN Texts[text].params =>
    Texts[text].params["order_size"] \subseteq 1..OrderSizeMax

\* StrategyDefinition.from_dict: what a definition may not be without.
FromDict(text) == Texts[text].lacks \cap {"name", "types", "choices", "series", "rules"} = {}

\* validate_strategy_yaml
ValidText(text) ==
  Texts[text].lacks \cap {"mapping", "series", "rules", "snake_case"} = {} /\ FromDict(text)

\* That a default is among the choices, and an order size between 1 and ORDER_SIZE_MAX,
\* is up to the author of a text: adding it does not compile it.  The overrides that
\* are there already are of the strategies that are there.
ASSUME CatalogueAssumption ==
  /\ \A name \in DOMAIN Texts :
       /\ Texts[name].id \in Ids
       /\ FromDict(name) => Fits(name, Texts[name].defaults) /\ OrderSizesFit(name)
  /\ ValidRuntimeSettings(InitialSettings)
  /\ {"TINKOFF_TOKEN", "TWELVEDATA_TOKEN"} \subseteq EnvKeys
  /\ None \notin DOMAIN Texts /\ Torn \notin DOMAIN Texts /\ None # Torn
  /\ InitialYaml = [s \in Ids |-> InitialYaml[s]]
  /\ \A s \in Ids : InitialYaml[s] # None =>
                      InitialYaml[s] \in DOMAIN Texts /\ FromDict(InitialYaml[s])
  /\ \A o \in InitialOverrides :
       /\ o = [s \in Ids |-> o[s]]
       /\ \A s \in Ids : OfText(InitialYaml[s], o[s])
  /\ "settings" \notin Ids /\ Ids \cap EnvKeys = {}
  /\ \A jobs \in Agendas : \A j \in jobs :
       /\ j.kind \in {"enable", "delete", "run"} => j.id \in Ids
       /\ j.kind = "add" => j.text \in DOMAIN Texts

-----------------------------------------------------------------------------

CatalogueInit ==
  /\ \E o \in InitialOverrides : config = [settings |-> InitialSettings, overrides |-> o]
  /\ yaml = InitialYaml
  /\ env = EmptyEnv
  /\ agenda \in Agendas
  /\ pc = [p \in Processes |-> "idle"]
  /\ job = [p \in Processes |-> [kind |-> "none"]]
  /\ known = [p \in Processes |-> [s \in Ids |-> None]]
  /\ held = [p \in Processes |-> NoCopy]
  /\ heldEnv = [p \in Processes |-> EmptyEnv]
  /\ alone = [p \in Processes |-> TRUE]
  /\ linked = [p \in Processes |-> TRUE]
  /\ saved = config
  /\ savedEnv = EmptyEnv
  /\ stale = [p \in Processes |-> {}]
  /\ lost = {}
  /\ orphaned = {}

\* The processes that still have the file to themselves after p has written it.
Shared(p, writing) == [q \in Processes |-> q = p \/ (alone[q] /\ pc[q] \notin writing)]

Go(p, to) == pc' = [pc EXCEPT ![p] = to]

\* The process is gone with what it had in memory.
Finished(p) ==
  /\ Go(p, "idle")
  /\ UNCHANGED agenda
  /\ job' = [job EXCEPT ![p] = [kind |-> "none"]]
  /\ known' = [known EXCEPT ![p] = [s \in Ids |-> None]]
  /\ held' = [held EXCEPT ![p] = NoCopy]
  /\ heldEnv' = [heldEnv EXCEPT ![p] = EmptyEnv]
  /\ linked' = [linked EXCEPT ![p] = TRUE]

\* A command is started: the import registers what is there, and all but a few
\* commands first repair the configuration.
Start(p) ==
  /\ pc[p] = "idle"
  /\ \E j \in agenda :
       /\ job' = [job EXCEPT ![p] = j]
       /\ Go(p, IF j.kind \in Lightweight THEN "begin" ELSE "sanitize")
       /\ known' = [known EXCEPT ![p] = IF j.kind = "run" THEN Discovered ELSE @]
  /\ UNCHANGED <<files, agenda, held, heldEnv, alone, linked, history>>

\* The command raises, refuses its argument, or is killed.
Fail(p) ==
  /\ pc[p] # "idle"
  /\ Finished(p)
  /\ stale' = [stale EXCEPT ![p] = {}]
  /\ lost' = IF pc[p] = "env write" THEN lost \cup EnvKeys ELSE lost
  /\ alone' = [alone EXCEPT ![p] = TRUE]
  /\ UNCHANGED <<files, saved, savedEnv, orphaned>>

\* load_config for a change; an unreadable file raises.
Load(p) ==
  /\ config # Torn
  /\ held' = [held EXCEPT ![p] = config]
  /\ stale' = [stale EXCEPT ![p] = {}]
  /\ UNCHANGED <<files, agenda, job, known, heldEnv, alone, linked,
                 saved, savedEnv, lost, orphaned>>

SanitizeLoad(p) ==
  /\ pc[p] = "sanitize"
  /\ Load(p)
  /\ Go(p, IF Sanitized(config) = config THEN "begin" ELSE "sanitize open")

SanitizedJob == [kind |-> "sanitize"]
Current(p) == IF pc[p] \in {"sanitize open", "sanitize write"} THEN SanitizedJob ELSE job[p]

LoadConfig(p) ==
  /\ \/ pc[p] = "begin" /\ job[p].kind \in {"settings", "enable"}
     \/ pc[p] = "load"
  /\ job[p].kind = "settings" =>
       config # Torn /\ Acceptable(job[p].updates, config.settings)
  /\ Load(p)
  /\ Go(p, "open")

\* save_config: open(..., "w") truncates the file ...
SaveOpen(p) ==
  /\ pc[p] \in {"open", "sanitize open"}
  /\ config' = Torn
  /\ alone' = [alone EXCEPT ![p] = TRUE]
  /\ Go(p, IF pc[p] = "open" THEN "write" ELSE "sanitize write")
  /\ UNCHANGED <<yaml, env, agenda, job, known, held, heldEnv, linked, history>>

\* ... and the copy is written; over another's, unless it happens to be longer,
\* it leaves a file that is not JSON.
SaveWrite(p) ==
  /\ pc[p] \in {"write", "sanitize write"}
  /\ LET j == Current(p)
         keys == KeysOf(j, held[p])
         done == Changed(j, held[p])
     IN  /\ lost' = (lost \cup stale[p]) \ (IF j.kind = "delete" THEN {j.id} ELSE {})
         /\ config' \in IF alone[p] THEN {done} ELSE {done, Torn}
         /\ saved' = [settings |-> IF "settings" \in lost' THEN done.settings
                                   ELSE Changed(j, saved).settings,
                      overrides |-> [s \in Ids |-> IF s \in lost' THEN done.overrides[s]
                                                   ELSE Changed(j, saved).overrides[s]]]
         /\ stale' = [q \in Processes |-> IF q = p THEN {} ELSE stale[q] \cup keys]
         /\ orphaned' = CASE j.kind = "delete" -> orphaned \ {j.id}
                          [] j.kind = "run" /\ known[p][j.id] # yaml[j.id] -> orphaned \cup {j.id}
                          [] OTHER -> orphaned
  /\ alone' = Shared(p, {"write", "sanitize write"})
  /\ IF pc[p] = "sanitize write"
     THEN Go(p, "begin") /\ UNCHANGED <<agenda, job, known, held, heldEnv, linked>>
     ELSE Finished(p)
  /\ UNCHANGED <<yaml, env, savedEnv>>

-----------------------------------------------------------------------------
(* Strategies *)

\* add_strategy_yaml: the text must be valid and its file must not exist.
AddCheck(p) ==
  /\ pc[p] = "begin" /\ job[p].kind = "add"
  /\ ValidText(job[p].text)
  /\ yaml[Texts[job[p].text].id] = None
  /\ Go(p, "yaml open")
  /\ UNCHANGED <<files, locals, history>>

AddOpen(p) ==
  /\ pc[p] = "yaml open"
  /\ LET s == Texts[job[p].text].id
     IN  /\ yaml' = [yaml EXCEPT ![s] = Torn]
         /\ orphaned' = IF yaml[s] \in {None, Torn} THEN orphaned ELSE orphaned \cup {s}
  /\ alone' = [alone EXCEPT ![p] = TRUE]
  /\ Go(p, "yaml write")
  /\ UNCHANGED <<config, env, agenda, job, known, held, heldEnv, linked,
                 saved, savedEnv, stale, lost>>

\* What is written to a file that has been deleted since it was opened is gone with it.
AddWrite(p) ==
  /\ pc[p] = "yaml write"
  /\ LET s == Texts[job[p].text].id
     IN  /\ \E text \in IF ~linked[p] THEN {yaml[s]}
                       ELSE IF alone[p] THEN {job[p].text} ELSE {job[p].text, Torn} :
              yaml' = [yaml EXCEPT ![s] = text]
         /\ orphaned' = IF yaml[s] \in {Torn, yaml'[s]} THEN orphaned ELSE orphaned \cup {s}
  /\ alone' = IF linked[p] THEN Shared(p, {"yaml write"}) ELSE [alone EXCEPT ![p] = TRUE]
  /\ Finished(p)
  /\ UNCHANGED <<config, env, saved, savedEnv, stale, lost>>

\* delete_strategy_yaml; the overrides are dropped afterwards.
DeleteUnlink(p) ==
  /\ pc[p] = "begin" /\ job[p].kind = "delete"
  /\ yaml[job[p].id] # None
  /\ yaml' = [yaml EXCEPT ![job[p].id] = None]
  /\ orphaned' = orphaned \cup {job[p].id}
  /\ linked' = [q \in Processes |->
       linked[q] /\ ~(pc[q] = "yaml write" /\ Texts[job[q].text].id = job[p].id)]
  /\ Go(p, "load")
  /\ UNCHANGED <<config, env, agenda, job, known, held, heldEnv, alone,
                 saved, savedEnv, stale, lost>>

\* A run of an enabled strategy that the process has registered: the search of its
\* parameters ends with any assignment.
RunSearch(p) ==
  /\ pc[p] = "begin" /\ job[p].kind = "run"
  /\ config # Torn
  /\ LET s == job[p].id
     IN  /\ Discovered[s] # None /\ known[p][s] # None
         /\ StrategyEnabled(Merged(Discovered[s], config.overrides[s]))
         /\ \E best \in Assignments(known[p][s]) :
              job' = [job EXCEPT ![p] = [kind |-> "run", id |-> s, best |-> best]]
  /\ Go(p, "load")
  /\ UNCHANGED <<files, agenda, known, held, heldEnv, alone, linked, history>>

-----------------------------------------------------------------------------
(* Tokens *)

RefusedIfAll(refused, updates) == refused = DOMAIN updates        \* mutant

\* save_tokens_command: nothing is saved when a token is refused.
Refuses(refused, updates) == refused # {}

\* validate_tokens probes each token; `accepted' is what is to be saved.
VerifyTokens(p) ==
  /\ pc[p] = "begin" /\ job[p].kind = "tokens"
  /\ \E refused \in SUBSET DOMAIN job[p].updates :
       /\ job[p].verify \/ refused = {}
       /\ ~Refuses(refused, job[p].updates)
       /\ job' = [job EXCEPT ![p] = [kind |-> "tokens", updates |-> @.updates,
                                     accepted |-> refused = {}]]
  /\ Go(p, "env read")
  /\ UNCHANGED <<files, agenda, known, held, heldEnv, alone, linked, history>>

\* A file that another process has truncated reads as one without keys.
EnvRead(p) ==
  /\ pc[p] = "env read"
  /\ heldEnv' = [heldEnv EXCEPT ![p] = env]
  /\ stale' = [stale EXCEPT ![p] = IF \E q \in Processes : pc[q] = "env write"
                                   THEN EnvKeys ELSE {}]
  /\ Go(p, "env open")
  /\ UNCHANGED <<files, agenda, job, known, held, alone, linked,
                 saved, savedEnv, lost, orphaned>>

EnvOpen(p) ==
  /\ pc[p] = "env open"
  /\ env' = EmptyEnv
  /\ alone' = [alone EXCEPT ![p] = TRUE]
  /\ Go(p, "env write")
  /\ UNCHANGED <<config, yaml, agenda, job, known, held, heldEnv, linked, history>>

\* Written over what another process has written, lines of that may remain.
EnvWrite(p) ==
  /\ pc[p] = "env write"
  /\ LET done == EnvWith(heldEnv[p], job[p].updates)
     IN  /\ \E remain \in IF alone[p] THEN {{}} ELSE SUBSET EnvKeys :
              env' = [k \in EnvKeys |-> IF k \in remain THEN env[k] ELSE done[k]]
         /\ lost' = lost \cup (IF alone[p] THEN stale[p] ELSE EnvKeys)
         /\ savedEnv' = [k \in EnvKeys |->
              IF k \in lost' THEN env'[k]
              ELSE IF job[p].accepted THEN EnvWith(savedEnv, job[p].updates)[k]
              ELSE savedEnv[k]]
  /\ stale' = [q \in Processes |-> IF q = p THEN {} ELSE stale[q] \cup DOMAIN job[p].updates]
  /\ alone' = Shared(p, {"env write"})
  /\ Finished(p)
  /\ UNCHANGED <<config, yaml, saved, orphaned>>

-----------------------------------------------------------------------------

CatalogueNext ==
  \E p \in Processes :
    \/ Start(p) \/ Fail(p) \/ SanitizeLoad(p)
    \/ LoadConfig(p) \/ SaveOpen(p) \/ SaveWrite(p)
    \/ AddCheck(p) \/ AddOpen(p) \/ AddWrite(p) \/ DeleteUnlink(p) \/ RunSearch(p)
    \/ VerifyTokens(p) \/ EnvRead(p) \/ EnvOpen(p) \/ EnvWrite(p)

CatalogueSpec == CatalogueInit /\ [][CatalogueNext]_catalogueVars

-----------------------------------------------------------------------------
(* Properties *)

\* What a command saves stays until another one saves the same key: only a save
\* that falls between another process's read and write of the same file can be
\* undone, and a save changes nothing but its own keys.  No token is among it
\* that was refused, or came together with one that was.
SavesSurvive ==
  /\ config # Torn =>
       /\ "settings" \notin lost => config.settings = saved.settings
       /\ \A s \in Ids \ lost : config.overrides[s] = saved.overrides[s]
  /\ (\A p \in Processes : pc[p] # "env write") =>
       \A k \in EnvKeys \ lost : env[k] = savedEnv[k]

\* The settings are valid as a whole, the instrument one of its source for
\* example, whichever of them are saved in whatever order.
SettingsStayValid == config # Torn => ValidRuntimeSettings(config.settings)

\* The overrides of a strategy are accepted by its present text, also when it has
\* been deleted and added anew with other parameters; unless it was deleted
\* under a run of it, its text was damaged by two that added it at once, or a save
\* has brought back an older copy.
OverridesFit ==
  config # Torn =>
    \A s \in Ids \ (lost \cup orphaned) :
      Discovered[s] # None =>
        Fits(Discovered[s], RunParams(Merged(Discovered[s], config.overrides[s])))

=============================================================================
