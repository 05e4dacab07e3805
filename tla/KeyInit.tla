------------------------------- MODULE KeyInit -------------------------------
(***************************************************************************)
(* `wxeasy init`: how the keys of the databases get into all_keys.json,    *)
(* and stay there while the command is run again and again.                *)
(*                                                                         *)
(* The file is always written as a whole, from the keys this one run came  *)
(* by; what earlier runs had saved survives only because each run first    *)
(* checks every saved key against page 1 of its database and takes along   *)
(* the ones that fit (reuse_verified_keys).  The file may lie in three     *)
(* places: beside a config.json in the working directory ("here"), in      *)
(* ~/.wxeasy ("home"), and, read only, in the older ~/.wx-cli ("old").     *)
(*                                                                         *)
(* A key is the number of the encryption a database was made with.  A page *)
(* verifies under that number and no other.  The command may be            *)
(* interrupted (Ctrl-C) between any two steps.  Left out: a write cut off  *)
(* half way, databases made or renamed while the command runs, databases   *)
(* that share a salt, saved keys of plaintext databases, and two `init` at *)
(* once; see the README.                                                   *)
(***************************************************************************)
EXTENDS Naturals, FiniteSets

CONSTANTS
  Database,   \* databases under db_storage
  MaxKey,     \* how often a database is made anew
  MaxStops,   \* how often the command is interrupted
  SudoHere    \* whether sudo is used where the working directory has a config.json

ASSUME KeyInitAssumption ==
  IsFiniteSet(Database) /\ MaxKey \in Nat \ {0} /\ MaxStops \in Nat /\ SudoHere \in BOOLEAN

VARIABLES
  key,        \* [Database -> 0..MaxKey]: the key on disk, 0 where there is no file
  saved,      \* [Dir -> [Database -> 0..MaxKey]]: the entries of all_keys.json, 0 is none
  present,    \* the directories with an all_keys.json
  config,     \* [Dir -> {"none", "edited", "written"}]: config.json
  rootOwned,  \* the directories whose all_keys.json belongs to root
  step, cmd, expected, entries,
  stops

keyVars == <<key, saved, present, config, rootOwned, step, cmd, expected, entries, stops>>

Dir == {"here", "home", "old"}
NoKeys == [d \in Database |-> 0]

InitKeys ==
  /\ key \in [Database -> {0, 1}]
  /\ \E old \in [Database -> {0, 1}] :
       /\ saved = [f \in Dir |-> IF f = "old" THEN old ELSE NoKeys]
       /\ present = IF old = NoKeys THEN {} ELSE {"old"}
  /\ config = [f \in Dir |-> "none"] /\ rootOwned = {}
  /\ step = "idle" /\ cmd = <<>> /\ expected = 0 /\ entries = NoKeys /\ stops = 0

-----------------------------------------------------------------------------
Count(e) == Cardinality({d \in Database : e[d] # 0})

\* collect_db_salts: the encrypted databases.
Encrypted == {d \in Database : key[d] # 0}

\* verify_enc_key_for_db: page 1 decrypts to the header of a database.
Verifies(k, d) == key[d] # 0 /\ k = key[d]

\* The candidate files: beside the configuration, ~/.wxeasy, ~/.wx-cli of $HOME
\* (which sudo may have changed).
Candidates(c) == present \cap ({c.dir, "home"} \cup IF c.seesOld THEN {"old"} ELSE {})

\* Mutant: only what was scanned is kept.
ReuseNothing(c, scanned) == scanned

\* What was scanned comes first; a missing one is filled in from the saved keys that
\* still verify.
Reuse(c, scanned) ==
  [d \in Database |-> IF scanned[d] = 0 /\ \E f \in Candidates(c) : Verifies(saved[f][d], d)
                THEN key[d] ELSE scanned[d]]

\* merge_entries: an entry that is there is not replaced.
Merge(base, extra) == [d \in Database |-> IF base[d] # 0 THEN base[d] ELSE extra[d]]

\* The keys WeChat's memory or a capture gives away: those of some databases.
Found(wanted) == {[d \in Database |-> IF d \in s THEN key[d] ELSE 0] : s \in SUBSET wanted}

\* persist_keys replaces the whole file; a file keeps its owner, a new one gets the
\* writer's, and root's file refuses anybody else.
Writable(dir, root) == root \/ dir \notin rootOwned
Persist(dir, root, e) ==
  /\ saved' = [saved EXCEPT ![dir] = e]
  /\ present' = present \cup {dir}
  /\ rootOwned' = IF root /\ dir \notin present THEN rootOwned \cup {dir} ELSE rootOwned

-----------------------------------------------------------------------------
(* The command.                                                            *)

\* find_or_create_config_path: the working directory's config.json, else ~/.wxeasy.
ConfigDirs == {"home"} \cup {f \in {"here"} : config[f] # "none"}

Initialised(c) == ~c.force /\ ~c.live /\ config[c.dir] = "written" /\ c.dir \in present

Commands ==
  {c \in [dir : ConfigDirs, force : BOOLEAN, live : BOOLEAN, sudo : BOOLEAN,
          scans : BOOLEAN, seesOld : BOOLEAN] :
     /\ c.sudo /\ c.dir = "here" => SudoHere
     /\ c.seesOld \/ c.sudo
     /\ c.live => c.scans /\ ~c.force}

\* cmd_init: nothing to do when configuration and keys are there; else the databases
\* are counted.  scans: the version is 4.1.9 or older, or unknown.
Start(c) ==
  /\ step = "idle" /\ ~Initialised(c) /\ Encrypted # {}
  /\ cmd' = c /\ expected' = Cardinality(Encrypted)
  /\ entries' = NoKeys
  /\ step' = IF c.live THEN "underlay" ELSE "scan"
  /\ UNCHANGED <<key, saved, present, config, rootOwned, stops>>

\* scan_keys, where the version has keys in memory; a failed scan is an empty one.
Scan ==
  /\ step = "scan"
  /\ \E found \in Found(IF cmd.scans THEN Encrypted ELSE {}) : entries' = found
  /\ step' = "fill"
  /\ UNCHANGED <<key, saved, present, config, rootOwned, cmd, expected, stops>>

\* Mutant: the file is written before the saved keys were read.
UnderlayLate ==
  /\ step = "underlay"
  /\ entries' = Reuse(cmd, NoKeys)
  /\ IF Count(entries') >= expected
     THEN step' = "save" /\ UNCHANGED <<saved, present, rootOwned>>
     ELSE /\ step' = "capture"
          /\ IF Writable(cmd.dir, cmd.sudo)
             THEN Persist(cmd.dir, cmd.sudo, NoKeys)
             ELSE UNCHANGED <<saved, present, rootOwned>>
  /\ UNCHANGED <<key, config, cmd, expected, stops>>

\* live_flow: saved keys first; unless they are all, they are written back before the
\* capture starts, with the rights of the caller; a failure to do so is ignored.
Underlay ==
  /\ step = "underlay"
  /\ entries' = Reuse(cmd, NoKeys)
  /\ IF Count(entries') >= expected
     THEN step' = "save" /\ UNCHANGED <<saved, present, rootOwned>>
     ELSE /\ step' = "capture"
          /\ IF Writable(cmd.dir, cmd.sudo)
             THEN Persist(cmd.dir, cmd.sudo, entries')
             ELSE UNCHANGED <<saved, present, rootOwned>>
  /\ UNCHANGED <<key, config, cmd, expected, stops>>

\* capture_keys_live looks for the missing databases only; an error ends the command.
Capture(found) ==
  /\ step = "capture"
  /\ entries' = Merge(entries, found) /\ step' = "fill"
  /\ UNCHANGED <<key, saved, present, config, rootOwned, cmd, expected, stops>>

Missing == {d \in Encrypted : entries[d] = 0}

CaptureSome == \E found \in Found(Missing) : Capture(found)

\* `sudo wxeasy init --live` where no other config.json is, and a capture that the user
\* helps along by opening a chat whose key is missing.
LiveAgain == \E c \in Commands : c.live /\ c.sudo /\ c.dir = "home" /\ Start(c)
CaptureMore ==
  /\ step = "capture" /\ cmd.dir = "home" /\ cmd.sudo
  /\ \E found \in Found(Missing) \ {NoKeys} : Capture(found)

CaptureFails ==
  /\ step = "capture"
  /\ step' = "idle" /\ cmd' = <<>> /\ entries' = NoKeys /\ expected' = 0
  /\ UNCHANGED <<key, saved, present, config, rootOwned, stops>>

\* acquire_keys, live_flow: what is still missing is filled in from the saved keys.
\* The classic way gives up when there is no key at all; the live one does not.
FillIn ==
  /\ step = "fill"
  /\ LET e == IF Count(entries) < expected THEN Reuse(cmd, entries) ELSE entries
     IN IF e = NoKeys /\ ~cmd.live
        THEN step' = "idle" /\ cmd' = <<>> /\ entries' = NoKeys /\ expected' = 0
        ELSE step' = "save" /\ entries' = e /\ UNCHANGED <<cmd, expected>>
  /\ UNCHANGED <<key, saved, present, config, rootOwned, stops>>

\* drop_privileges_if_sudo: ~/.wxeasy is the calling user's again.
GivenBack(c) == IF c.sudo THEN rootOwned \ {"home"} ELSE rootOwned

\* The rights of root are given up; then the keys are saved.
Save ==
  /\ step = "save"
  /\ rootOwned' = GivenBack(cmd)
  /\ IF cmd.dir \in GivenBack(cmd)
     THEN step' = "idle" /\ cmd' = <<>> /\ entries' = NoKeys /\ expected' = 0
          /\ UNCHANGED <<saved, present>>
     ELSE /\ saved' = [saved EXCEPT ![cmd.dir] = entries]
          /\ present' = present \cup {cmd.dir}
          /\ step' = "config" /\ UNCHANGED <<cmd, expected, entries>>
  /\ UNCHANGED <<key, config, stops>>

\* config.json is written; the daemon is stopped (see DaemonLifecycle).
SaveConfig ==
  /\ step = "config"
  /\ config' = [config EXCEPT ![cmd.dir] = "written"]
  /\ step' = "idle" /\ cmd' = <<>> /\ entries' = NoKeys /\ expected' = 0
  /\ UNCHANGED <<key, saved, present, rootOwned, stops>>

Interrupt ==
  /\ step # "idle" /\ stops < MaxStops
  /\ stops' = stops + 1
  /\ step' = "idle" /\ cmd' = <<>> /\ entries' = NoKeys /\ expected' = 0
  /\ UNCHANGED <<key, saved, present, config, rootOwned>>

\* WeChat makes a database, or makes it anew under another key.
Rekey(d) ==
  /\ step = "idle" /\ key[d] < MaxKey
  /\ key' = [key EXCEPT ![d] = @ + 1]
  /\ UNCHANGED <<saved, present, config, rootOwned, step, cmd, expected, entries, stops>>

\* The user puts a config.json, not filled in, into the working directory.
EditConfig ==
  /\ step = "idle" /\ config["here"] = "none"
  /\ config' = [config EXCEPT !["here"] = "edited"]
  /\ UNCHANGED <<key, saved, present, rootOwned, step, cmd, expected, entries, stops>>

Running == CaptureSome \/ CaptureFails \/ Scan \/ Underlay \/ FillIn \/ Save \/ SaveConfig

KeyNext ==
  \/ \E c \in Commands : Start(c)
  \/ Running
  \/ Interrupt \/ (\E d \in Database : Rekey(d)) \/ EditConfig

KeySpec == InitKeys /\ [][KeyNext]_keyVars

\* A command that is not interrupted goes on, a capture ends; again and again the user
\* runs `sudo wxeasy init --live`, and sometimes opens a chat whose key is missing.
\* Without sudo a run cannot write what an interrupted sudo run has left to root.
FairKeySpec ==
  /\ KeySpec
  /\ WF_keyVars(Running)
  /\ SF_keyVars(LiveAgain)
  /\ SF_keyVars(CaptureMore)

-----------------------------------------------------------------------------
\* A run of `init` that is given dir finds d's key among the saved ones.
Known(dir, d) ==
  key[d] # 0 /\ \E f \in present \cap {dir, "home"} : saved[f][d] = key[d]

\* No run of init loses a key that is still good: whatever a scan or a capture comes up
\* with, whether it fails, and wherever it is interrupted, a key that a run could have
\* reused is among those the next run can reuse (the early write of live_flow, the whole
\* file's replacement by persist_keys, the filling in of acquire_keys).
KeysKept ==
  [][\A dir \in {"here", "home"}, d \in Database :
       Known(dir, d) /\ key'[d] = key[d] => Known(dir, d)']_keyVars

\* Opening one chat per `init --live` is enough in the end: although every capture may
\* find one key only, and runs fail or are interrupted in between, all the encrypted
\* databases' keys come together in ~/.wxeasy/all_keys.json.
EventuallyCovered == <>[](\A d \in Database : key[d] # 0 => Known("home", d))
=============================================================================
