------------------------------ MODULE ConfigStore ------------------------------
(***************************************************************************)
(* libs/config.rs and the admin routes over it: config.json, the copy of  *)
(* it that every request reads, and the procedures that read, merge,      *)
(* write and cache it.  None of them takes a lock, the operator edits the *)
(* file at any time, and the server's threads interleave between any two  *)
(* of their steps.                                                        *)
(***************************************************************************)
EXTENDS Integers

CONSTANTS
  Procs,      \* the admin calls and reloads of a behaviour
  Edits,      \* what a call changes: [field, value]; [field |-> "none"] is a plain reload
  Saves,      \* the contents an operator may leave in the file
  Defaults    \* default_config(), with every default entry present and no admin key

\* What a configuration says, as far as requests can tell: the model that claude is mapped to, the type of
\* provider P, whether Claude models use the Messages API, who searches the web, and whether the premium gate is set;
\* whether every default entry and the admin key are there; and what the file's text is.
Providers == {"none", "anthropic", "openai-compatible", "openai-responses"}
Searchers == {"copilot", "P", "strip"}
Configs ==
  [mapping : STRING, provider : Providers, native : BOOLEAN, search : Searchers, gate : BOOLEAN,
   full : BOOLEAN, keyed : BOOLEAN, text : {"json", "empty", "malformed"}]

VARIABLES
  file,   \* the content of config.json: a configuration whose text is "json", "empty" or "malformed"
  cache,  \* CACHED_CONFIG
  proc,   \* proc[p]: where a call stands and the configuration it holds
  saves   \* edits the operator has made

configVars == <<file, cache, proc, saves>>

Empty == [Defaults EXCEPT !.text = "empty"]
Malformed == [Defaults EXCEPT !.text = "malformed"]
Readable(content) == content.text = "json"

\* The default configuration carries no key; an edit of the admin API names a part of the configuration that a
\* request can tell; an operator leaves a configuration, nothing, or what is not JSON.
ASSUME ConfigStoreAssumption ==
  /\ Defaults \in Configs /\ Readable(Defaults) /\ Defaults.full /\ ~Defaults.keyed
  /\ \A edit \in Edits :
       \/ edit.field = "none"
       \/ edit.field = "mapping" /\ edit.value \in STRING
       \/ edit.field = "provider" /\ edit.value \in Providers
       \/ edit.field = "search" /\ edit.value \in Searchers
       \/ edit.field \in {"native", "gate"} /\ edit.value \in BOOLEAN
  /\ \A content \in Saves : content \in Configs /\ (Readable(content) \/ content \in {Empty, Malformed})

\* merge_default_config and the admin key: a configuration with nothing missing.
Merged(config) == [config EXCEPT !.full = TRUE, !.keyed = TRUE]
Edited(config, edit) ==
  IF edit.field = "none" THEN config ELSE [config EXCEPT ![edit.field] = edit.value]

Idle == [at |-> "idle", edit |-> [field |-> "none"], held |-> Defaults, alone |-> TRUE]

\* Start-up has merged, written and cached the configuration.
InitConfig(config) ==
  /\ file = config
  /\ cache = file
  /\ proc = [p \in Procs |-> Idle]
  /\ saves = 0

Running(p) == proc[p].at \notin {"idle", "saved", "failed"}
At(p, place) == proc[p].at = place
GoTo(p, place, held) == proc' = [proc EXCEPT ![p].at = place, ![p].held = held]
Fail(p) == GoTo(p, "failed", Defaults)

\* A step of p that changes the file or the copy disturbs the calls under way.
Disturb(p, place, held) ==
  proc' = [q \in Procs |->
             IF q = p THEN [proc[p] EXCEPT !.at = place, !.held = held]
             ELSE [proc[q] EXCEPT !.alone = @ /\ ~Running(q)]]
--------------------------------------------------------------------------------
\* post_model_mappings_route, post_providers, post_reload_route: a call begins.
Begin(p, edit) ==
  /\ At(p, "idle")
  /\ proc' = [proc EXCEPT ![p] = [Idle EXCEPT !.at = IF edit.field = "none" THEN "load" ELSE "edit",
                                             !.edit = edit,
                                             !.alone = \A q \in Procs : ~Running(q)]]
  /\ UNCHANGED <<file, cache, saves>>

\* A mutant: the edit starts from the copy in memory.
EditCached(p) ==
  /\ At(p, "edit")
  /\ GoTo(p, "write", Edited(cache, proc[p].edit))
  /\ UNCHANGED <<file, cache, saves>>

\* read_editable_config_from_disk: a file that is not JSON refuses the edit, so that it is never overwritten.
ReadForEdit(p) ==
  /\ At(p, "edit")
  /\ CASE Readable(file)     -> GoTo(p, "write", Edited(file, proc[p].edit))
       [] file = Empty       -> GoTo(p, "write", Edited([Defaults EXCEPT !.full = FALSE], proc[p].edit))
       [] file = Malformed   -> Fail(p)
  /\ UNCHANGED <<file, cache, saves>>

\* write_config_to_disk: a temporary file renamed over the old one, or an error.
WriteEdit(p) ==
  /\ At(p, "write")
  /\ \/ file' = proc[p].held /\ Disturb(p, "load", proc[p].held)
     \/ Fail(p) /\ UNCHANGED file
  /\ UNCHANGED <<cache, saves>>

\* reload_config, read_config_from_disk: an empty file is replaced by the defaults; a malformed one reads as the
\* defaults and stays.
Load(p) ==
  /\ At(p, "load")
  /\ IF file = Empty
     THEN \/ file' = Defaults /\ Disturb(p, "ensure", Defaults)
          \/ GoTo(p, "ensure", Defaults) /\ UNCHANGED file
     ELSE /\ GoTo(p, "ensure", IF Readable(file) THEN file ELSE Defaults)
          /\ UNCHANGED file
  /\ UNCHANGED <<cache, saves>>

\* ensure_admin_api_key: without a key the file is read a second time, and a malformed one fails the reload.
EnsureKey(p) ==
  /\ At(p, "ensure")
  /\ CASE proc[p].held.keyed -> GoTo(p, IF proc[p].held.full THEN "cache" ELSE "persist", Merged(proc[p].held))
       [] ~proc[p].held.keyed /\ file = Malformed -> Fail(p)
       [] ~proc[p].held.keyed /\ file = Empty -> GoTo(p, "persist new key", Merged(Defaults))
       [] OTHER -> GoTo(p, "persist new key", Merged(file))
  /\ UNCHANGED <<file, cache, saves>>

\* merge_config_with_defaults: what was added is written back; only a lost key fails the reload.
Persist(p) ==
  /\ proc[p].at \in {"persist", "persist new key"}
  /\ \/ file' = proc[p].held /\ Disturb(p, "cache", proc[p].held)
     \/ UNCHANGED file /\ IF At(p, "persist") THEN GoTo(p, "cache", proc[p].held) ELSE Fail(p)
  /\ UNCHANGED <<cache, saves>>

Cache(p) ==
  /\ At(p, "cache")
  /\ cache' = proc[p].held
  /\ Disturb(p, "saved", Defaults)
  /\ UNCHANGED <<file, saves>>

\* The operator saves the file with an editor.
Save(content) ==
  /\ content # file
  /\ file' = content
  /\ saves' = saves + 1
  /\ proc' = [q \in Procs |-> [proc[q] EXCEPT !.alone = @ /\ ~Running(q)]]
  /\ UNCHANGED cache

ProcStep(p) == ReadForEdit(p) \/ WriteEdit(p) \/ Load(p) \/ EnsureKey(p) \/ Persist(p) \/ Cache(p)
--------------------------------------------------------------------------------
\* A call that ends well alone has its change in the file and in memory, and the two agree but for what could not
\* be written.
Kept(p) ==
  (Running(p) /\ proc'[p].at = "saved" /\ proc'[p].alone) =>
     /\ Readable(file') /\ cache' = Merged(file')
     /\ Edited(cache', proc[p].edit) = cache'

\* A file that is not JSON is overwritten only by a call that read it before it was.
MalformedKept ==
  (file = Malformed /\ file' # Malformed) =>
     \/ saves' # saves
     \/ \E p \in Procs : ~proc[p].alone /\ proc[p].at \in {"write", "persist", "persist new key"}

\* An acknowledged change of the admin API that met no other one is what requests read from then on and what a
\* restart will read; no procedure of the server replaces a file the operator has broken, unless it had read the file
\* before.  set_model_mappings, set_provider_config, reload_config (libs/config.rs).
ConfigKept == [][MalformedKept /\ \A p \in Procs : Kept(p)]_configVars
================================================================================
