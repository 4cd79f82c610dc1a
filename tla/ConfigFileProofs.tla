-------------------------- MODULE ConfigFileProofs --------------------------
(***************************************************************************)
(* Theorems about ConfigFile, for any number of commands, any places a     *)
(* vault may be, and any number of files moved by hand.                    *)
(*                                                                         *)
(* As long as no two saves overlap, there is one at most (Alone), it has   *)
(* the temporary file, which is not the configuration (Apart), and what it *)
(* renames is what it wanted to save (Filled).  So the configuration is    *)
(* always the last one saved (Kept), and a launch that no command finished *)
(* beside was pointed there (Pointed).                                     *)
(***************************************************************************)
EXTENDS ConfigFile, FiniteSetTheorems, TLAPS

Places == {"idle", "loaded", "refused", "created", "written", "done", "failed"}

Alone  == \A c, d \in Saving : c = d
Apart  == /\ tmp # None => tmp \in Inodes /\ tmp # conf
          /\ \A c \in Saving : tmp # None /\ cmd[c].inode = tmp
Filled == /\ \A c \in Commands : cmd[c].want \in Paths \cup {None}
          /\ \A c \in Commands : /\ At(c, "created") => content[tmp] = Part
                                 /\ At(c, "written") => content[tmp] = cmd[c].want
Kept   == /\ conf \in Inodes \cup {None} /\ saved \in Paths \cup {None}
          /\ IF conf = None THEN saved = None ELSE content[conf] = saved
Pointed == ~raced /\ ~explicit /\ saved # None /\ screen # "off"
              => path = saved /\ (screen = "FirstRun" => warned)

Shaped == /\ cmd \in [Commands -> [pc : Places, want : Paths \cup {None}, inode : Inodes]]
          /\ content \in [Inodes -> Paths \cup {None, Part}]

IInv == ~overlapped => Shaped /\ Alone /\ Apart /\ Filled /\ Kept /\ Pointed

LEMMA ReadsTheSaved == IInv /\ ~overlapped => load_from = saved
  BY PathAssumption DEF IInv, Kept, load_from

LEMMA Initially == Init => IInv
<1> SUFFICES ASSUME Init PROVE IInv
  OBVIOUS
<1>1. 0 \in Inodes
  BY CommandAssumption, FS_CardinalityType DEF Inodes
<1>2. Saving = {}
  BY DEF Init, Saving, Idle
<1>3. Shaped
  <2>1. PICK p \in Paths : content = [i \in Inodes |-> IF i = 0 THEN p ELSE Part]
    BY DEF Init
  <2>2. Idle \in [pc : Places, want : Paths \cup {None}, inode : Inodes]
    BY <1>1 DEF Idle, Places
  <2> QED
    BY <2>1, <2>2 DEF Init, Shaped
<1>4. Kept
  BY <1>1, PathAssumption DEF Init, Kept, load_from
<1>5. Apart /\ Alone /\ Filled /\ Pointed
  BY <1>2 DEF Init, Apart, Alone, Filled, Pointed, At, Idle
<1> QED
  BY <1>3, <1>4, <1>5 DEF IInv

\* A command by itself, before it saves or when it dies: no save begins.
LEMMA NobodySaves ==
  ASSUME NEW c \in Commands, NEW p \in Paths \cup {None}, NEW s \in {"loaded", "refused", "failed"},
         Shaped, Alone, Apart, Filled, Kept, Pointed,
         cmd' = [cmd EXCEPT ![c] = [@ EXCEPT !.want = p, !.pc = s]],
         UNCHANGED <<file, saved, overlapped, raced>>, RestOfLaunch
  PROVE  Shaped' /\ Alone' /\ Apart' /\ Filled' /\ Kept' /\ Pointed'
<1> USE DEF file, RestOfLaunch
<1>1. Shaped'
  BY DEF Shaped, Places
<1>2. Saving' \subseteq Saving \ {c}
  BY DEF Saving, Shaped, Places
<1>3. \A d \in Commands \ {c} : cmd'[d] = cmd[d]
  BY DEF Shaped
<1>4. Alone' /\ Apart'
  BY <1>2, <1>3 DEF Alone, Apart, Saving, Inodes
<1>5. Filled'
  BY <1>3 DEF Filled, At, Shaped
<1>6. Kept' /\ Pointed'
  BY DEF Kept, Pointed, Inodes
<1> QED
  BY <1>1, <1>4, <1>5, <1>6

LEMMA CommandKeeps ==
  ASSUME IInv, NEW c \in Commands, Command(c)
  PROVE IInv'
<1> SUFFICES ASSUME ~overlapped' PROVE (Shaped /\ Alone /\ Apart /\ Filled /\ Kept /\ Pointed)'
  BY DEF IInv
<1>1. ~overlapped
  BY DEF Command, RunSet, RunUnset, CreateTmp, WriteTmp, Rename, Die, Goes
<1>2. Shaped /\ Alone /\ Apart /\ Filled /\ Kept /\ Pointed
  BY <1>1 DEF IInv
<1> USE <1>2
<1>3. CASE RunUnset(c) \/ Die(c) \/ \E p \in Paths, new \in BOOLEAN : RunSet(c, p, new)
  <2>1. PICK p \in Paths \cup {None}, s \in {"loaded", "refused", "failed"} :
            cmd' = [cmd EXCEPT ![c] = [@ EXCEPT !.want = p, !.pc = s]]
    <3>1. ASSUME RunUnset(c) \/ Die(c)
          PROVE  \E s \in {"loaded", "failed"} :
                    cmd' = [cmd EXCEPT ![c] = [@ EXCEPT !.want = cmd[c].want, !.pc = s]]
      BY <3>1 DEF RunUnset, Die, Goes, Shaped
    <3>2. cmd[c].want \in Paths \cup {None}
      BY DEF Filled
    <3>3. ASSUME NEW p \in Paths, NEW new \in BOOLEAN, RunSet(c, p, new)
          PROVE  \E s \in {"loaded", "refused"} :
                    cmd' = [cmd EXCEPT ![c] = [@ EXCEPT !.want = p, !.pc = s]]
      BY <3>3 DEF RunSet
    <3> QED
      BY <1>3, <3>1, <3>2, <3>3
  <2>2. UNCHANGED <<file, saved, overlapped, raced>> /\ RestOfLaunch
    BY <1>3 DEF RunSet, RunUnset, Die
  <2> QED
    BY <2>1, <2>2, NobodySaves
<1>4. CASE CreateTmp(c)
  <2> USE <1>4 DEF RestOfLaunch
  <2>1. Saving = {} /\ UNCHANGED <<conf, saved, raced>>
    BY DEF CreateTmp
  <2>2. PICK i : /\ i \in Inodes \ {conf}
                 /\ tmp' = i /\ content' = [content EXCEPT ![i] = Part]
                 /\ cmd' = [cmd EXCEPT ![c].pc = "created", ![c].inode = i]
    <3>1. 0 \in Inodes /\ 1 \in Inodes
      <4>1. Cardinality(Commands) \in Nat /\ Cardinality(Commands) # 0
        BY CommandAssumption, FS_CardinalityType, FS_EmptySet
      <4> QED
        BY <4>1 DEF Inodes
    <3>2. \E n : n \in Inodes \ {conf}
      BY <3>1
    <3>3. (CHOOSE n \in Inodes \ {conf} : TRUE) \in Inodes \ {conf}
      BY <3>2
    <3>4. Inodes \ ({conf} \cup {cmd[d].inode : d \in Saving}) = Inodes \ {conf}
      BY <2>1
    <3> QED
      BY <3>3, <3>4 DEF CreateTmp, Apart
  <2>3. Shaped'
    BY <2>2 DEF Shaped, Places, Inodes
  <2>4. Saving' = {c}
    BY <2>1, <2>2 DEF Saving, Shaped
  <2>5. cmd'[c].inode = tmp' /\ cmd'[c].pc = "created" /\ cmd'[c].want = cmd[c].want
    BY <2>2 DEF Shaped
  <2>6. \A d \in Commands \ {c} : cmd'[d] = cmd[d]
    BY <2>2 DEF Shaped
  <2>7. Alone' /\ Apart'
    BY <2>1, <2>2, <2>4, <2>5, PathAssumption DEF Alone, Apart, Inodes
  <2>8. Filled'
    BY <2>1, <2>2, <2>5, <2>6 DEF Filled, At, Saving, Shaped
  <2>9. Kept'
    BY <2>1, <2>2 DEF Kept, Inodes, Shaped
  <2>10. Pointed'
    <3>1. UNCHANGED <<path, screen, warned, explicit, raced, saved>>
      BY <2>1 DEF CreateTmp
    <3> QED
      BY <3>1, Zenon DEF Pointed
  <2> QED
    BY <2>3, <2>7, <2>8, <2>9, <2>10
<1>5. CASE WriteTmp(c)
  <2> USE <1>5 DEF RestOfLaunch
  <2>1. c \in Saving /\ UNCHANGED <<conf, tmp, saved, raced>>
    BY DEF WriteTmp, At, Saving
  <2>2. content[tmp] = Part /\ cmd[c].inode = tmp /\ tmp \in Inodes \ {conf}
    <3>1. tmp # None /\ cmd[c].inode = tmp
      BY <2>1 DEF Apart
    <3>2. content[tmp] = Part
      BY DEF WriteTmp, Filled
    <3> QED
      BY <3>1, <3>2 DEF Apart
  <2>3. content' = [content EXCEPT ![tmp] = cmd[c].want]
    BY <2>2 DEF WriteTmp
  <2>4. cmd' = [cmd EXCEPT ![c].pc = "written"]
    BY DEF WriteTmp, Goes
  <2>5. Shaped'
    BY <2>2, <2>3, <2>4 DEF Shaped, Filled, Places, Inodes
  <2>6. Saving' = Saving /\ cmd'[c].want = cmd[c].want /\ \A d \in Commands : cmd'[d].inode = cmd[d].inode
    BY <2>1, <2>4 DEF Saving, Shaped
  <2>7. Alone' /\ Apart'
    BY <2>1, <2>6 DEF Alone, Apart, Saving, Inodes
  <2>8. Saving = {c}
    BY <2>1 DEF Alone
  <2>9. Filled'
    <3>1. \A d \in Commands \ {c} : cmd'[d] = cmd[d] /\ d \notin Saving
      BY <2>4, <2>8 DEF Shaped
    <3>2. cmd'[c].pc = "written" /\ content'[tmp] = cmd[c].want
      BY <2>2, <2>3, <2>4 DEF Shaped
    <3> QED
      BY <2>1, <2>6, <3>1, <3>2 DEF Filled, At, Saving
  <2>10. Kept' /\ Pointed'
    <3>1. Kept'
      BY <2>1, <2>2, <2>3 DEF Kept, Inodes, Shaped
    <3>2. UNCHANGED <<path, screen, warned, explicit, raced, saved>>
      BY <2>1 DEF WriteTmp
    <3> QED
      BY <3>1, <3>2, Zenon DEF Pointed
  <2> QED
    BY <2>5, <2>7, <2>9, <2>10
<1>6. CASE Rename(c)
  <2> USE <1>6 DEF RestOfLaunch
  <2>1. c \in Saving /\ tmp # None /\ tmp \in Inodes /\ content[tmp] = cmd[c].want
    BY DEF Rename, At, Saving, Apart, Filled
  <2>2. /\ conf' = tmp /\ tmp' = None /\ saved' = cmd[c].want
        /\ raced' = (screen # "off" \/ raced)
        /\ cmd' = [cmd EXCEPT ![c].pc = "done"] /\ content' = content
    BY <2>1 DEF Rename, Goes
  <2>3. Shaped'
    BY <2>2 DEF Shaped, Places, Inodes
  <2>4. Saving' = {}
    BY <2>1, <2>2 DEF Saving, Alone, Shaped
  <2>5. Filled'
    BY <2>2, <2>4 DEF Filled, At, Shaped, Saving
  <2>6. Kept'
    BY <2>1, <2>2 DEF Kept, Filled, Inodes
  <2>7. Alone' /\ Apart'
    BY <2>2, <2>4 DEF Alone, Apart
  <2>8. Pointed'
    <3>1. screen' # "off" => raced'
      BY <2>2 DEF Rename
    <3> QED
      BY <3>1, Zenon DEF Pointed
  <2> QED
    BY <2>3, <2>5, <2>6, <2>7, <2>8
<1> QED
  BY <1>3, <1>4, <1>5, <1>6 DEF Command

LEMMA NothingSaved ==
  ASSUME IInv, UNCHANGED <<file, cmd, saved, overlapped>>, ~overlapped => (Pointed => Pointed')
  PROVE  IInv'
  BY DEF IInv, file, Shaped, Alone, Saving, Apart, Filled, At, Kept, Inodes

LEMMA StepKeeps == IInv /\ [Next]_vars => IInv'
<1> SUFFICES ASSUME IInv, [Next]_vars PROVE IInv'
  OBVIOUS
<1>1. CASE \E c \in Commands : Command(c)
  BY <1>1, CommandKeeps
<1>2. ASSUME NEW given \in Paths \cup {None}, Resolve(given) PROVE IInv'
  <2>1. UNCHANGED <<file, cmd, saved, overlapped>>
    BY <1>2 DEF Resolve
  <2>2. ~overlapped /\ ~explicit' /\ saved # None => path' = saved
    <3>1. ~explicit' => given = None
      <4>1. explicit' = (given # None)
        BY <1>2 DEF Resolve
      <4> QED
        BY <4>1, Zenon
    <3>2. load_from # None => resolve(None) = load_from
      BY DEF resolve
    <3> QED
      BY <1>2, <3>1, <3>2, ReadsTheSaved DEF Resolve
  <2>3. screen' = "resolved" /\ saved' = saved
    BY <1>2 DEF Resolve
  <2>4. ~overlapped => Pointed'
    BY <2>2, <2>3 DEF Pointed
  <2> QED
    BY <2>1, <2>4, NothingSaved
<1>3. CASE StartApp
  <2>1. UNCHANGED <<file, cmd, saved, overlapped>>
    BY <1>3 DEF StartApp
  <2>2. ~overlapped => (Pointed => Pointed')
    BY <1>3, ReadsTheSaved DEF StartApp, Pointed, missing_vault_warning
  <2> QED
    BY <2>1, <2>2, NothingSaved
<1>4. CASE VaultMade \/ Quit
  BY <1>4, NothingSaved DEF VaultMade, Quit, Pointed
<1>5. ASSUME NEW p \in Paths, NEW k, DiskChanges(p, k) PROVE IInv'
  BY <1>5, NothingSaved DEF DiskChanges, Pointed, launch
<1>6. CASE UNCHANGED vars
  BY <1>6, NothingSaved DEF vars, file, launch, Pointed
<1> QED
  BY <1>1, <1>2, <1>3, <1>4, <1>5, <1>6 DEF Next

\* The invariant is inductive.
THEOREM Invariance == Spec => []IInv
  BY Initially, StepKeeps, PTL DEF Spec

\* A save is whole or not at all, wherever a command dies, for any number of commands
\* one after the other.
THEOREM SaveIsAtomic == Spec => []SavedIsWhole
<1>1. IInv => SavedIsWhole
  BY ReadsTheSaved DEF SavedIsWhole
<1> QED
  BY <1>1, Invariance, PTL

\* A launch opens the vault that was saved, or says that it is not there.
THEOREM LaunchOpensTheSaved == Spec => []OpensTheSaved
<1>1. IInv => OpensTheSaved
  BY DEF IInv, Pointed, OpensTheSaved
<1> QED
  BY <1>1, Invariance, PTL
=============================================================================
