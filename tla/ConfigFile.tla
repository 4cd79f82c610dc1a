----------------------------- MODULE ConfigFile -----------------------------
(***************************************************************************)
(* Which vault a launch opens: neko-wallet/src/config.rs, paths.rs and     *)
(* main.rs.  The configuration is one path in a small file that            *)
(* `neko-wallet set db` and `unset db` replace by writing a temporary file *)
(* and renaming it; any number of these commands may run at once, and each *)
(* may die between two calls of the file system.                           *)
(*                                                                         *)
(* A file is an inode with what was written to it: a renamed file keeps    *)
(* its inode, and so does whoever has it open.  Part stands for a file     *)
(* that is empty or only partly written, which load_from reads as "no      *)
(* vault configured", as it does a file that is not there.                 *)
(***************************************************************************)
EXTENDS Naturals, FiniteSets

CONSTANTS Paths,       \* places a vault may be
          Candidate,   \* the path next to the executable
          Fallback,    \* the path in the data directory
          Commands,    \* runs of `set db` and `unset db`
          None, Part,
          MaxMoves     \* bound: files moved or deleted by hand

ASSUME PathAssumption == /\ {Candidate, Fallback} \subseteq Paths
                         /\ {None, Part} \cap Paths = {}
                         /\ None # Part /\ None \notin Nat
ASSUME CommandAssumption == IsFiniteSet(Commands) /\ MaxMoves \in Nat

Inodes == 0..Cardinality(Commands)
Kinds  == {"missing", "unreadable", "other", "vault"}

VARIABLES
    conf, tmp,   \* the inodes named config.toml and config.toml.tmp
    content,     \* by inode: the path saved, None for `unset`, or Part
    cmd,         \* by command: the statement it is at
    disk,        \* by path: what a reader finds there
    writable,    \* whether the executable's directory can be written to
    path,        \* the vault this launch was pointed at
    screen,      \* what the launch shows
    warned,      \* startup_warning
    explicit,    \* the path was given by --db or NEKO_WALLET_DB
    saved,       \* history: what the last command to finish saved
    overlapped,  \* history: one save began while another was under way
    raced,       \* history: a command finished since the launch began
    moves

file    == <<conf, tmp, content>>
launch  == <<path, screen, warned, explicit, raced>>
vars == <<file, cmd, disk, writable, launch, saved, overlapped, moves>>

Idle == [pc |-> "idle", want |-> None, inode |-> 0]

load_from == IF conf = None \/ content[conf] = Part THEN None
             ELSE content[conf]

\* Whatever cannot be read counts as Missing.  "other" is a file that is too
\* short, a plain SQLite database, or one whose header or profile is not ours.
check_vault(p) ==
    CASE disk[p] \in {"missing", "unreadable"} -> "Missing"
      [] disk[p] = "other"                     -> "NotAVault"
      [] OTHER                                 -> "Ok"

resolve_FallsThrough(given) ==
    IF given # None THEN given
    ELSE IF load_from # None /\ disk[load_from] # "missing" THEN load_from
    ELSE IF disk[Candidate] # "missing" \/ writable THEN Candidate
    ELSE Fallback

\* A configured path is returned even when nothing is there.
resolve(given) ==
    IF given # None THEN given
    ELSE IF load_from # None THEN load_from
    ELSE IF disk[Candidate] # "missing" \/ writable THEN Candidate
    ELSE Fallback

missing_vault_warning(p) == disk[p] = "missing" /\ load_from = p

----------------------------------------------------------------------------
Init ==
    /\ conf \in {None, 0}
    /\ content \in {[i \in Inodes |-> IF i = 0 THEN p ELSE Part] : p \in Paths}
    /\ tmp = None
    /\ cmd = [c \in Commands |-> Idle]
    /\ disk \in [Paths -> Kinds]
    /\ writable \in BOOLEAN
    /\ path = None /\ screen = "off" /\ warned = FALSE /\ explicit = FALSE
    /\ saved = load_from
    /\ overlapped = FALSE /\ raced = FALSE
    /\ moves = 0

At(c, s)     == cmd[c].pc = s
Goes(c, s)   == cmd' = [cmd EXCEPT ![c].pc = s]
Saving       == {c \in Commands : cmd[c].pc \in {"created", "written"}}
RestOfLaunch == UNCHANGED <<disk, writable, path, screen, warned, explicit>>

\* run_command up to config::save: a path that is no vault is refused, and one
\* that is not there too, unless --new was given.
RunSet(c, p, new) ==
    /\ At(c, "idle")
    /\ LET verdict == check_vault(p)
           accept  == verdict = "Ok" \/ (verdict = "Missing" /\ new)
       IN cmd' = [cmd EXCEPT ![c] = [@ EXCEPT !.want = p,
                      !.pc = IF accept THEN "loaded" ELSE "refused"]]
    /\ UNCHANGED <<file, saved, overlapped, raced>> /\ RestOfLaunch

RunUnset(c) ==
    /\ At(c, "idle")
    /\ Goes(c, "loaded")                           \* want is None
    /\ UNCHANGED <<file, saved, overlapped, raced>> /\ RestOfLaunch

CreateTmp_InPlace(c) ==
    /\ At(c, "loaded") /\ conf # None
    /\ tmp' = conf
    /\ content' = [content EXCEPT ![conf] = Part]
    /\ cmd' = [cmd EXCEPT ![c].pc = "created", ![c].inode = conf]
    /\ overlapped' = (overlapped \/ Saving # {})
    /\ UNCHANGED <<conf, saved, raced>> /\ RestOfLaunch

\* fs::write, first half: open, creating or truncating.
CreateTmp(c) ==
    /\ At(c, "loaded")
    /\ LET free == Inodes \ ({conf} \cup {cmd[d].inode : d \in Saving})
           i == IF tmp # None THEN tmp ELSE CHOOSE n \in free : TRUE
       IN /\ tmp' = i
          /\ content' = [content EXCEPT ![i] = Part]
          /\ cmd' = [cmd EXCEPT ![c].pc = "created", ![c].inode = i]
    /\ overlapped' = (overlapped \/ Saving # {})
    /\ UNCHANGED <<conf, saved, raced>> /\ RestOfLaunch

\* fs::write, second half.  Bytes another save wrote to the same inode in
\* between may stick out behind ours.
WriteTmp(c) ==
    /\ At(c, "created")
    /\ LET i == cmd[c].inode
       IN \E left \in {cmd[c].want} \cup
                      (IF content[i] = Part THEN {} ELSE {Part}) :
            content' = [content EXCEPT ![i] = left]
    /\ Goes(c, "written")
    /\ UNCHANGED <<conf, tmp, saved, overlapped, raced>> /\ RestOfLaunch

\* The name that is renamed may be another command's file by now, or gone.
Rename(c) ==
    /\ At(c, "written")
    /\ IF tmp = None
       THEN Goes(c, "failed") /\ UNCHANGED <<file, saved, raced>>
       ELSE /\ conf' = tmp /\ tmp' = None
            /\ saved' = cmd[c].want
            /\ raced' = (screen # "off" \/ raced)
            /\ Goes(c, "done")
            /\ UNCHANGED content
    /\ UNCHANGED overlapped /\ RestOfLaunch

\* A command dies, or one of its file operations fails.
Die(c) ==
    /\ cmd[c].pc \in {"loaded", "created", "written"}
    /\ Goes(c, "failed")
    /\ UNCHANGED <<file, saved, overlapped, raced>> /\ RestOfLaunch

Command(c) ==
    \/ \E p \in Paths, new \in BOOLEAN : RunSet(c, p, new)
    \/ RunUnset(c) \/ CreateTmp(c) \/ WriteTmp(c) \/ Rename(c) \/ Die(c)

\* main, up to run_with: the path first, then the configuration once more for
\* the warning.
Resolve(given) ==
    /\ screen = "off"
    /\ path' = resolve(given)
    /\ explicit' = (given # None)
    /\ screen' = "resolved"
    /\ raced' = FALSE
    /\ UNCHANGED <<file, cmd, disk, writable, warned, saved, overlapped>>

StartApp ==
    /\ screen = "resolved"
    /\ warned' = missing_vault_warning(path)
    /\ screen' = IF disk[path] # "missing" THEN "Unlock" ELSE "FirstRun"
    /\ UNCHANGED <<file, cmd, disk, writable, path, explicit, saved,
                   overlapped, raced>>

\* The first-run screen makes a vault where it was pointed.
VaultMade ==
    /\ screen = "FirstRun"
    /\ disk' = [disk EXCEPT ![path] = "vault"]
    /\ screen' = "Unlock"
    /\ UNCHANGED <<file, cmd, writable, path, warned, explicit, saved,
                   overlapped, raced>>

Quit ==
    /\ screen \in {"Unlock", "FirstRun"}
    /\ screen' = "off"
    /\ UNCHANGED <<file, cmd, disk, writable, path, warned, explicit, saved,
                   overlapped, raced>>

\* The user deletes, moves or puts back a file while nothing runs.
DiskChanges(p, kind) ==
    /\ screen = "off" /\ moves < MaxMoves
    /\ moves' = moves + 1
    /\ disk' = [disk EXCEPT ![p] = kind]
    /\ UNCHANGED <<file, cmd, writable, launch, saved, overlapped>>

Next ==
    \/ (\E c \in Commands : Command(c)) /\ UNCHANGED moves
    \/ (\E p \in Paths \cup {None} : Resolve(p)) /\ UNCHANGED moves
    \/ (StartApp \/ VaultMade \/ Quit) /\ UNCHANGED moves
    \/ \E p \in Paths, k \in {"missing", "vault"} : DiskChanges(p, k)

Spec == Init /\ [][Next]_vars

----------------------------------------------------------------------------

\* A save that is interrupted leaves the configuration as it was: unless two
\* saves ran at once, what a launch reads is what the last command to finish
\* saved, whatever died half-way.
SavedIsWhole == ~overlapped => load_from = saved

\* A launch without --db opens the vault that was saved and no other, and if
\* nothing is there it says so before showing the first-run screen.
OpensTheSaved ==
    ~overlapped /\ ~raced /\ ~explicit /\ saved # None
    /\ screen \in {"Unlock", "FirstRun"}
      => /\ path = saved
         /\ screen = "FirstRun" => warned
=============================================================================
