------------------------- MODULE SignagePlayerProofs -------------------------
(***************************************************************************)
(* Proofs about SignagePlayer, for every set of videos, rotations and mpv  *)
(* flags and any number of changes, versions and faults.                   *)
(***************************************************************************)
EXTENDS SignagePlayer, TLAPS

\* Both the download and its rotated sibling are what config held asks for.
Kept(v) == disk[<<v, 0>>] = held.ver[v] /\ disk[<<v, held.rot>>] = held.ver[v]

\* No more resyncs were forced than changes made.
TokensBounded == server.token <= changes

\* What mpv was started with is what the player remembers, if it remembers anything.
Remembered == current # {} => m3u = current

\* A tick ensures files of the config it applies, each in the version it asks for.
Ensuring ==
  /\ pc = "ensure" =>
       /\ held.videos # {} /\ lastRot = held.rot /\ lastToken = held.token /\ args = held.flags
       /\ todo \subseteq held.videos
       /\ \A v \in Video : <<v, held.rot>> \in paths => Kept(v)
  /\ pc = "reconcile" => lastToken = held.token /\ args = held.flags

\* A config that was applied is kept until it changes: on disk, in the player, and by the agent.
AppliedKept ==
  applied # {} =>
    /\ held.videos # {} /\ lastToken = held.token /\ args = held.flags /\ lastRot = held.rot
    /\ \A v \in held.videos : Kept(v)
    /\ current = Wanted(held)
    /\ pc = "ensure" => paths = (held.videos \ todo) \X {held.rot}

PlayerInv == TypeOK /\ TokensBounded /\ Remembered /\ Ensuring /\ AppliedKept

-----------------------------------------------------------------------------
(* Types.                                                                  *)

LEMMA Configs ==
  ASSUME NEW c \in Config
  PROVE  /\ c.videos \in SUBSET Video /\ c.ver \in [Video -> 1 .. MaxVersion]
         /\ c.token \in 0 .. MaxChanges /\ c.token \in Nat /\ c.flags \in Flags /\ c.rot \in Rotation
  BY DEF Config

LEMMA Rotations == 0 \in Rotation /\ -1 \notin Rotation /\ MaxVersion \in Nat /\ MaxChanges \in Nat
                   /\ MaxFaults \in Nat
  BY PlayerAssumption DEF Rotation

LEMMA Files ==
  ASSUME NEW v \in Video, NEW r \in Rotation
  PROVE  <<v, r>> \in File /\ <<v, r>>[1] = v /\ <<v, r>>[2] = r
  BY DEF File

LEMMA EmptyType == Empty \in [File -> 0 .. MaxVersion]
  BY Rotations DEF Empty

LEMMA PlayerInitial == Init => PlayerInv
<1> SUFFICES ASSUME Init PROVE PlayerInv
  OBVIOUS
<1>1. PICK S \in SUBSET Video, f \in Flags :
        server = [videos |-> S, ver |-> [v \in Video |-> 1], token |-> 0, flags |-> f, rot |-> 0]
  BY DEF Init
<1>2. [v \in Video |-> 1] \in [Video -> 1 .. MaxVersion]
  BY PlayerAssumption
<1>3. server \in Config /\ server.token = 0
  <2> DEFINE ver == [v \in Video |-> 1]
  <2>1. server = [videos |-> S, ver |-> ver, token |-> 0, flags |-> f, rot |-> 0]
        /\ ver \in [Video -> 1 .. MaxVersion]
    BY <1>1, <1>2
  <2> HIDE DEF ver
  <2> QED  BY <2>1, Rotations DEF Config
<1>4. TypeOK
  BY <1>3, Rotations, EmptyType DEF Init, TypeOK
<1> QED  BY <1>3, <1>4 DEF Init, PlayerInv, TokensBounded, Remembered, Ensuring, AppliedKept

-----------------------------------------------------------------------------
(* The operators.                                                          *)

LEMMA Changed ==
  ASSUME PlayerInv, NEW c \in Config, Change(c), c.token <= server.token + 1
  PROVE  PlayerInv'
<1>1. /\ server' = c /\ changes' = changes + 1 /\ changes < MaxChanges
      /\ UNCHANGED <<pc, held, lastToken, lastRot, todo, paths, disk, args, current, m3u, mpv, pid,
                     applied, faults>>
  BY DEF Change, agentVars, playerVars
<1>2. changes' \in 0 .. MaxChanges
  BY <1>1, Rotations DEF PlayerInv, TypeOK
<1>3. TypeOK'
  BY <1>1, <1>2 DEF PlayerInv, TypeOK
<1>4. TokensBounded'
  <2>1. changes \in Nat /\ server.token \in Nat /\ c.token \in Nat /\ server.token <= changes
    BY Configs DEF PlayerInv, TypeOK, TokensBounded
  <2> QED  BY <2>1, <1>1 DEF TokensBounded
<1>5. Remembered' /\ Ensuring' /\ AppliedKept'
  BY <1>1 DEF PlayerInv, Remembered, Ensuring, AppliedKept, Kept, Wanted
<1> QED  BY <1>3, <1>4, <1>5 DEF PlayerInv

LEMMA OperatorsKeep ==
  ASSUME PlayerInv, OperatorStep
  PROVE  PlayerInv'
<1>1. server \in Config /\ server.token \in Nat /\ server.token <= changes /\ changes \in Nat
  BY Configs DEF PlayerInv, TypeOK, TokensBounded
<1>2. ASSUME NEW c \in Config, c.token = server.token, Change(c) PROVE PlayerInv'
  BY <1>1, <1>2, Changed
<1>3. CASE Assign
  <2>1. PICK S \in SUBSET Video : Change([server EXCEPT !.videos = S])
    BY <1>3 DEF Assign
  <2>2. PICK c : c = [server EXCEPT !.videos = S]
    OBVIOUS
  <2>3. c \in Config /\ c.token = server.token
    BY <1>1, <2>2 DEF Config
  <2> QED  BY <1>2, <2>1, <2>2, <2>3
<1>4. CASE Publish
  <2>1. PICK v \in Video : /\ server.ver[v] < MaxVersion
                           /\ Change([server EXCEPT !.ver = [server.ver EXCEPT ![v] = server.ver[v] + 1]])
    BY <1>4 DEF Publish
  <2>2. PICK w : w = [server.ver EXCEPT ![v] = server.ver[v] + 1]
    OBVIOUS
  <2>3. w \in [Video -> 1 .. MaxVersion]
    <3>1. server.ver \in [Video -> 1 .. MaxVersion]
      BY <1>1, Configs
    <3>2. server.ver[v] + 1 \in 1 .. MaxVersion
      BY <3>1, <2>1, Rotations
    <3> QED  BY <3>1, <3>2, <2>2
  <2>4. PICK c : c = [server EXCEPT !.ver = w]
    OBVIOUS
  <2>5. c \in Config /\ c.token = server.token
    BY <1>1, <2>3, <2>4 DEF Config
  <2> QED  BY <1>2, <2>1, <2>2, <2>4, <2>5
<1>5. CASE Rotate
  <2>1. PICK r \in Rotation : Change([server EXCEPT !.rot = r])
    BY <1>5 DEF Rotate
  <2>2. PICK c : c = [server EXCEPT !.rot = r]
    OBVIOUS
  <2>3. c \in Config /\ c.token = server.token
    BY <1>1, <2>2 DEF Config
  <2> QED  BY <1>2, <2>1, <2>2, <2>3
<1>6. CASE SetProfile
  <2>1. PICK f \in Flags : Change([server EXCEPT !.flags = f])
    BY <1>6 DEF SetProfile
  <2>2. PICK c : c = [server EXCEPT !.flags = f]
    OBVIOUS
  <2>3. c \in Config /\ c.token = server.token
    BY <1>1, <2>2 DEF Config
  <2> QED  BY <1>2, <2>1, <2>2, <2>3
<1>7. ASSUME changes < MaxChanges PROVE server.token + 1 \in 0 .. MaxChanges
  BY <1>1, <1>7, Rotations
<1>8. CASE ForceResync
  <2>1. Change([server EXCEPT !.token = server.token + 1]) /\ changes < MaxChanges
    BY <1>8 DEF ForceResync, Change
  <2>2. PICK c : c = [server EXCEPT !.token = server.token + 1]
    OBVIOUS
  <2>3. PICK k : k = server.token + 1 /\ k \in 0 .. MaxChanges
    BY <1>7, <2>1
  <2>4. c = [server EXCEPT !.token = k]
    BY <2>2, <2>3
  <2>5. c \in Config /\ c.token = k
    BY <1>1, <2>3, <2>4 DEF Config
  <2>6. c.token <= server.token + 1
    BY <1>1, <2>3, <2>5
  <2> QED  BY <2>1, <2>2, <2>5, <2>6, Changed
<1>9. CASE Retarget
  <2>1. PICK S \in SUBSET Video, r \in Rotation :
          Change([server EXCEPT !.videos = S, !.rot = r, !.token = server.token + 1])
    BY <1>9 DEF Retarget
  <2>2. PICK k : k = server.token + 1 /\ k \in 0 .. MaxChanges
    BY <1>7, <2>1 DEF Change
  <2>3. PICK c : c = [server EXCEPT !.videos = S, !.rot = r, !.token = k]
    OBVIOUS
  <2>4. c \in Config /\ c.token = k
    BY <1>1, <2>2, <2>3 DEF Config
  <2>5. c.token <= server.token + 1
    BY <1>1, <2>2, <2>4
  <2>6. Change(c)
    BY <2>1, <2>2, <2>3
  <2> QED  BY <2>4, <2>5, <2>6, Changed
<1> QED  BY <1>3, <1>4, <1>5, <1>6, <1>8, <1>9 DEF OperatorStep

-----------------------------------------------------------------------------
(* The agent.                                                              *)

LEMMA FetchKeeps ==
  ASSUME PlayerInv, Fetch
  PROVE  PlayerInv'
<1> DEFINE purge == server.token # lastToken /\ lastToken # 0
           reflag == server.flags # args
<1>1. /\ pc = "idle" /\ pc' = "reconcile" /\ held' = server /\ applied' = applied \cap {server}
      /\ lastToken' = server.token /\ args' = server.flags
      /\ disk' = IF purge THEN Empty ELSE disk
      /\ current' = IF reflag THEN {} ELSE current
      /\ mpv' = IF purge \/ reflag THEN "off" ELSE mpv
      /\ UNCHANGED <<server, changes, lastRot, todo, paths, m3u, pid, faults>>
  BY DEF Fetch
<1>2. server \in Config /\ server.token \in 0 .. MaxChanges /\ server.flags \in Flags
  BY Configs DEF PlayerInv, TypeOK
<1>3. TypeOK'
  <2>1. disk' \in [File -> 0 .. MaxVersion] /\ current' \in SUBSET File /\ mpv' \in {"off", "up", "idle"}
    BY <1>1, EmptyType DEF PlayerInv, TypeOK
  <2>2. applied' \subseteq {held'}
    BY <1>1 DEF PlayerInv, TypeOK
  <2> QED  BY <1>1, <1>2, <2>1, <2>2 DEF PlayerInv, TypeOK
<1>4. TokensBounded' /\ Remembered' /\ Ensuring'
  BY <1>1 DEF PlayerInv, TokensBounded, Remembered, Ensuring
<1>5. AppliedKept'
  <2>1. SUFFICES ASSUME applied' # {} PROVE AppliedKept'
    BY DEF AppliedKept
  <2>2. applied # {} /\ held = server
    BY <2>1, <1>1 DEF PlayerInv, TypeOK
  <2>3. ~purge /\ ~reflag
    BY <2>2 DEF PlayerInv, AppliedKept
  <2>4. held' = held /\ disk' = disk /\ current' = current
    BY <2>2, <2>3, <1>1
  <2>5. /\ held.videos # {} /\ lastRot = held.rot /\ current = Wanted(held)
        /\ \A v \in held.videos : Kept(v)
    BY <2>2 DEF PlayerInv, AppliedKept
  <2> QED  BY <2>2, <2>4, <2>5, <1>1 DEF AppliedKept, Kept, Wanted
<1> QED  BY <1>3, <1>4, <1>5 DEF PlayerInv

LEMMA FetchFailsKeeps ==
  ASSUME PlayerInv, FetchFails
  PROVE  PlayerInv'
<1>1. /\ pc' = "beat"
      /\ UNCHANGED <<server, changes, held, lastToken, lastRot, todo, paths, disk, args, current, m3u,
                     mpv, pid, applied, faults>>
  BY DEF FetchFails, playerVars
<1>2. TypeOK'
  BY <1>1 DEF PlayerInv, TypeOK
<1> QED  BY <1>1, <1>2 DEF PlayerInv, TokensBounded, Remembered, Ensuring, AppliedKept, Kept, Wanted

LEMMA BlankKeeps ==
  ASSUME PlayerInv, Blank
  PROVE  PlayerInv'
<1>1. /\ pc = "reconcile" /\ pc' = "beat" /\ held.videos = {} /\ mpv' = "off" /\ disk' = Empty
      /\ UNCHANGED <<server, changes, held, lastToken, lastRot, todo, paths, args, current, m3u, pid,
                     applied, faults>>
  BY DEF Blank
<1>2. TypeOK'
  BY <1>1, EmptyType DEF PlayerInv, TypeOK
<1> QED  BY <1>1, <1>2 DEF PlayerInv, TokensBounded, Remembered, Ensuring, AppliedKept

LEMMA ReconcileKeeps ==
  ASSUME PlayerInv, Reconcile
  PROVE  PlayerInv'
<1>1. /\ pc = "reconcile" /\ pc' = "ensure" /\ held.videos # {}
      /\ lastRot' = held.rot /\ todo' = held.videos /\ paths' = {}
      /\ disk' = IF lastRot \notin {-1, held.rot}
                 THEN [f \in File |-> IF f[2] \in {0, held.rot} THEN disk[f] ELSE 0] ELSE disk
      /\ UNCHANGED <<server, changes, held, lastToken, args, current, m3u, mpv, pid, applied, faults>>
  BY DEF Reconcile, playerVars
<1>2. held \in Config /\ held.videos \in SUBSET Video /\ held.rot \in Rotation
  BY Configs DEF PlayerInv, TypeOK
<1>3. disk' \in [File -> 0 .. MaxVersion]
  BY <1>1, Rotations DEF PlayerInv, TypeOK
<1>4. TypeOK'
  BY <1>1, <1>2, <1>3 DEF PlayerInv, TypeOK
<1>5. AppliedKept'
  <2>1. SUFFICES ASSUME applied # {} PROVE AppliedKept'
    BY <1>1 DEF AppliedKept
  <2>2. disk' = disk
    BY <2>1, <1>1 DEF PlayerInv, AppliedKept
  <2>3. paths' = (held'.videos \ todo') \X {held'.rot}
    BY <1>1
  <2> QED  BY <2>1, <2>2, <2>3, <1>1 DEF PlayerInv, AppliedKept, Kept, Wanted
<1>6. TokensBounded' /\ Remembered' /\ Ensuring'
  BY <1>1 DEF PlayerInv, TokensBounded, Remembered, Ensuring
<1> QED  BY <1>4, <1>5, <1>6 DEF PlayerInv

\* Ensuring one item, by whichever way.
LEMMA OneItem ==
  ASSUME PlayerInv, NEW v \in Video, Ensure(v) \/ Download(v) \/ Transpose(v) \/ ItemFails(v)
  PROVE  /\ pc = "ensure" /\ v \in todo
         /\ UNCHANGED <<server, changes, pc, held, lastToken, lastRot, args, current, m3u, mpv, pid,
                        applied, faults>>
         /\ disk' \in [File -> 0 .. MaxVersion]
         /\ \A f \in File : disk'[f] = disk[f] \/ disk'[f] = held.ver[f[1]]
         /\ \/ todo' = todo /\ paths' = paths
            \/ todo' = todo \ {v} /\ paths' = paths
            \/ todo' = todo \ {v} /\ paths' = paths \cup {<<v, held.rot>>} /\ Kept(v)'
            \/ todo' = todo \ {v} /\ paths' = paths \cup {<<v, 0>>} /\ held.rot # 0
         /\ Kept(v) => todo' = todo \ {v} /\ paths' = paths \cup {<<v, held.rot>>}
<1>1. /\ held \in Config /\ held.ver[v] \in 0 .. MaxVersion /\ held.rot \in Rotation
      /\ disk \in [File -> 0 .. MaxVersion] /\ 0 \in Rotation
  BY Configs, Rotations DEF PlayerInv, TypeOK
<1>2. <<v, 0>> \in File /\ <<v, held.rot>> \in File
  BY <1>1, Files
<1>3. /\ pc = "ensure" /\ v \in todo
      /\ UNCHANGED <<server, changes, pc, held, lastToken, lastRot, args, current, m3u, mpv, pid,
                     applied, faults>>
  BY DEF Ensure, Download, Transpose, ItemFails, agentVars, playerVars
<1>4. Usable(v) <=> Kept(v)
  BY DEF Usable, Valid, Kept
<1>5. CASE Ensure(v)
  <2>1. disk' = disk /\ todo' = todo \ {v} /\ paths' = paths \cup {<<v, held.rot>>} /\ Kept(v)
    BY <1>4, <1>5 DEF Ensure, Ensured
  <2>2. Kept(v)'
    BY <2>1, <1>3 DEF Kept
  <2> QED  BY <2>1, <2>2, <1>1, <1>3
<1>6. ASSUME NEW r \in Rotation, disk' = [disk EXCEPT ![<<v, r>>] = held.ver[v]]
      PROVE  /\ disk' \in [File -> 0 .. MaxVersion]
             /\ \A f \in File : disk'[f] = disk[f] \/ disk'[f] = held.ver[f[1]]
             /\ disk'[<<v, r>>] = held.ver[v]
  BY <1>1, <1>6, Files
<1>7. CASE Download(v)
  <2>1. disk' = [disk EXCEPT ![<<v, 0>>] = held.ver[v]] /\ todo' = todo /\ paths' = paths /\ ~Kept(v)
    BY <1>7 DEF Download, agentVars, Valid, Kept
  <2>2. /\ disk' \in [File -> 0 .. MaxVersion]
        /\ \A f \in File : disk'[f] = disk[f] \/ disk'[f] = held.ver[f[1]]
    BY <2>1, <1>1, <1>6
  <2> QED  BY <2>1, <2>2, <1>3
<1>8. CASE Transpose(v)
  <2>1. /\ disk' = [disk EXCEPT ![<<v, held.rot>>] = held.ver[v]] /\ ~Kept(v) /\ Valid(v)
        /\ todo' = todo \ {v} /\ paths' = paths \cup {<<v, held.rot>>}
    BY <1>4, <1>8 DEF Transpose, Ensured
  <2>2. /\ disk' \in [File -> 0 .. MaxVersion]
        /\ \A f \in File : disk'[f] = disk[f] \/ disk'[f] = held.ver[f[1]]
        /\ disk'[<<v, held.rot>>] = held.ver[v]
    BY <2>1, <1>1, <1>6
  <2>3. disk'[<<v, 0>>] = held.ver[v]
    <3>1. disk'[<<v, 0>>] = disk[<<v, 0>>] \/ disk'[<<v, 0>>] = held.ver[v]
      BY <2>2, <1>1, <1>2, Files
    <3> QED  BY <3>1, <2>1 DEF Valid
  <2>4. Kept(v)'
    BY <2>2, <2>3, <1>3 DEF Kept
  <2> QED  BY <2>1, <2>2, <2>4, <1>3
<1>9. CASE ItemFails(v)
  <2>1. disk' = disk /\ ~Kept(v)
    BY <1>4, <1>9 DEF ItemFails
  <2>2. CASE Valid(v)
    <3>1. todo' = todo \ {v} /\ paths' = paths \cup {<<v, 0>>}
      BY <2>2, <1>9 DEF ItemFails, Ensured
    <3>2. held.rot # 0
      BY <2>1, <2>2 DEF Kept, Valid
    <3> QED  BY <2>1, <3>1, <3>2, <1>1, <1>3
  <2>3. CASE ~Valid(v)
    <3>1. todo' = todo \ {v} /\ paths' = paths
      BY <2>3, <1>9 DEF ItemFails
    <3> QED  BY <2>1, <3>1, <1>1, <1>3
  <2> QED  BY <2>2, <2>3
<1> QED  BY <1>5, <1>7, <1>8, <1>9

LEMMA ItemKeeps ==
  ASSUME PlayerInv, NEW v \in Video, Ensure(v) \/ Download(v) \/ Transpose(v) \/ ItemFails(v)
  PROVE  PlayerInv'
<1>1. /\ pc = "ensure" /\ v \in todo
      /\ UNCHANGED <<server, changes, pc, held, lastToken, lastRot, args, current, m3u, mpv, pid,
                     applied, faults>>
      /\ disk' \in [File -> 0 .. MaxVersion]
      /\ \A f \in File : disk'[f] = disk[f] \/ disk'[f] = held.ver[f[1]]
      /\ \/ todo' = todo /\ paths' = paths
         \/ todo' = todo \ {v} /\ paths' = paths
         \/ todo' = todo \ {v} /\ paths' = paths \cup {<<v, held.rot>>} /\ Kept(v)'
         \/ todo' = todo \ {v} /\ paths' = paths \cup {<<v, 0>>} /\ held.rot # 0
      /\ Kept(v) => todo' = todo \ {v} /\ paths' = paths \cup {<<v, held.rot>>}
  BY OneItem
<1>2. held \in Config /\ held.rot \in Rotation /\ 0 \in Rotation /\ held.videos \in SUBSET Video
  BY Configs, Rotations DEF PlayerInv, TypeOK
<1>3. TypeOK'
  <2>1. todo' \in SUBSET Video /\ paths' \in SUBSET File
    BY <1>1, <1>2, Files DEF PlayerInv, TypeOK
  <2> QED  BY <1>1, <2>1 DEF PlayerInv, TypeOK
<1>4. \A u \in Video : Kept(u) => Kept(u)'
  <2>1. SUFFICES ASSUME NEW u \in Video, Kept(u) PROVE Kept(u)'
    OBVIOUS
  <2>2. \A r \in Rotation : disk'[<<u, r>>] = disk[<<u, r>>] \/ disk'[<<u, r>>] = held.ver[u]
    BY <1>1, Files
  <2> QED  BY <2>1, <2>2, <1>1, <1>2 DEF Kept
<1>5. Ensuring'
  <2>1. /\ held.videos # {} /\ lastRot = held.rot /\ lastToken = held.token /\ args = held.flags
        /\ todo \subseteq held.videos /\ \A u \in Video : <<u, held.rot>> \in paths => Kept(u)
    BY <1>1 DEF PlayerInv, Ensuring
  <2>2. \A u \in Video : <<u, held.rot>> \in paths' => Kept(u)'
    <3>1. SUFFICES ASSUME NEW u \in Video, <<u, held.rot>> \in paths' PROVE Kept(u)'
      OBVIOUS
    <3>2. CASE <<u, held.rot>> \in paths
      BY <3>2, <2>1, <1>4
    <3>3. CASE <<u, held.rot>> \notin paths
      BY <3>1, <3>3, <1>1
    <3> QED  BY <3>2, <3>3
  <2> QED  BY <2>1, <2>2, <1>1 DEF Ensuring
<1>6. AppliedKept'
  <2>1. SUFFICES ASSUME applied # {} PROVE AppliedKept'
    BY <1>1 DEF AppliedKept
  <2>2. /\ held.videos # {} /\ lastToken = held.token /\ args = held.flags /\ lastRot = held.rot
        /\ \A u \in held.videos : Kept(u)
        /\ current = Wanted(held) /\ paths = (held.videos \ todo) \X {held.rot}
    BY <2>1, <1>1 DEF PlayerInv, AppliedKept
  <2>3. v \in held.videos /\ todo' = todo \ {v} /\ paths' = paths \cup {<<v, held.rot>>}
    BY <2>2, <1>1 DEF PlayerInv, Ensuring
  <2>4. paths' = (held.videos \ todo') \X {held.rot}
    BY <2>2, <2>3, <1>1
  <2>5. \A u \in held.videos : Kept(u)'
    BY <2>2, <1>2, <1>4
  <2> QED  BY <2>2, <2>4, <2>5, <1>1 DEF AppliedKept, Wanted
<1> QED  BY <1>1, <1>3, <1>5, <1>6 DEF PlayerInv, TokensBounded, Remembered

LEMMA PlayKeeps ==
  ASSUME PlayerInv, Play
  PROVE  PlayerInv'
<1>1. /\ pc = "ensure" /\ todo = {} /\ pc' = "beat"
      /\ UNCHANGED <<server, changes, held, lastToken, lastRot, todo, paths, faults>>
  BY DEF Play
<1>2. CASE paths = {}
  <2>1. UNCHANGED <<disk, args, current, m3u, mpv, pid, applied>>
    BY <1>2 DEF Play, playerVars
  <2>2. TypeOK'
    BY <2>1, <1>1 DEF PlayerInv, TypeOK
  <2> QED  BY <2>1, <2>2, <1>1
           DEF PlayerInv, TokensBounded, Remembered, Ensuring, AppliedKept, Kept, Wanted
<1>3. CASE paths # {}
  <2>1. /\ disk' = [f \in File |-> IF f[1] \in held.videos THEN disk[f] ELSE 0]
        /\ applied' = IF paths = Wanted(held) THEN {held} ELSE {}
        /\ Launch(paths) /\ args' = args
    BY <1>3 DEF Play
  <2>2. disk' \in [File -> 0 .. MaxVersion]
    BY <2>1, Rotations DEF PlayerInv, TypeOK
  <2>3. /\ current' = paths /\ m3u' = paths
        /\ mpv' \in {"off", "up", "idle"} /\ pid' \in {0, 1}
    BY <2>1, <1>3 DEF Launch, PlayerInv, TypeOK, Remembered
  <2>4. TypeOK'
    BY <2>1, <2>2, <2>3, <1>1 DEF PlayerInv, TypeOK
  <2>5. AppliedKept'
    <3>1. SUFFICES ASSUME paths = Wanted(held) PROVE AppliedKept'
      BY <2>1 DEF AppliedKept
    <3>2. /\ held.videos # {} /\ lastRot = held.rot /\ lastToken = held.token /\ args = held.flags
          /\ \A v \in Video : <<v, held.rot>> \in paths => Kept(v)
      BY <1>1 DEF PlayerInv, Ensuring
    <3>3. held.videos \in SUBSET Video /\ held.rot \in Rotation /\ 0 \in Rotation
      BY Configs, Rotations DEF PlayerInv, TypeOK
    <3>4. ASSUME NEW v \in held.videos PROVE Kept(v)'
      <4>1. Kept(v)
        BY <3>1, <3>2, <3>3 DEF Wanted
      <4>2. \A r \in Rotation : disk'[<<v, r>>] = disk[<<v, r>>]
        BY <2>1, <3>3, Files
      <4> QED  BY <4>1, <4>2, <3>3, <1>1 DEF Kept
    <3> QED  BY <3>1, <3>2, <3>4, <2>1, <2>3, <1>1 DEF AppliedKept, Wanted
  <2>6. TokensBounded' /\ Remembered' /\ Ensuring'
    BY <2>3, <1>1 DEF PlayerInv, TokensBounded, Remembered, Ensuring
  <2> QED  BY <2>4, <2>5, <2>6 DEF PlayerInv
<1> QED  BY <1>2, <1>3

LEMMA HeartbeatKeeps ==
  ASSUME PlayerInv, Heartbeat
  PROVE  PlayerInv'
<1>1. /\ pc = "beat" /\ pc' = "idle" /\ todo' = {} /\ paths' = {}
      /\ UNCHANGED <<server, changes, held, lastToken, lastRot, disk, args, current, m3u, applied, faults>>
      /\ \/ mpv' = "up" /\ pid' = 1 - pid
         \/ mpv' = mpv /\ pid' = pid
  BY DEF Heartbeat
<1>2. TypeOK'
  BY <1>1 DEF PlayerInv, TypeOK
<1> QED  BY <1>1, <1>2 DEF PlayerInv, TokensBounded, Remembered, Ensuring, AppliedKept, Kept, Wanted

-----------------------------------------------------------------------------
(* mpv and the service manager.                                            *)

LEMMA MpvKeeps ==
  ASSUME PlayerInv, MpvRunsDry \/ MpvDies
  PROVE  PlayerInv'
<1>1. /\ UNCHANGED <<server, changes, pc, held, lastToken, lastRot, todo, paths, disk, args, current,
                     m3u, pid, applied>>
      /\ mpv' \in {"off", "idle"} /\ (faults' = faults \/ (faults < MaxFaults /\ faults' = faults + 1))
  <2>1. CASE MpvRunsDry
    BY <2>1 DEF MpvRunsDry, agentVars
  <2>2. CASE MpvDies
    BY <2>2 DEF MpvDies, agentVars
  <2> QED  BY <2>1, <2>2
<1>2. faults' \in 0 .. MaxFaults
  BY <1>1, Rotations DEF PlayerInv, TypeOK
<1>3. TypeOK'
  BY <1>1, <1>2 DEF PlayerInv, TypeOK
<1> QED  BY <1>1, <1>3 DEF PlayerInv, TokensBounded, Remembered, Ensuring, AppliedKept, Kept, Wanted

LEMMA RestartKeeps ==
  ASSUME PlayerInv, AgentRestart
  PROVE  PlayerInv'
<1>1. /\ pc' = "idle" /\ lastToken' = 0 /\ lastRot' = -1 /\ todo' = {} /\ paths' = {}
      /\ args' = LocalFlags /\ current' = {} /\ mpv' = "off" /\ applied' = {}
      /\ faults < MaxFaults /\ faults' = faults + 1
      /\ UNCHANGED <<server, changes, held, disk, m3u, pid>>
  BY DEF AgentRestart
<1>2. faults' \in 0 .. MaxFaults
  BY <1>1, Rotations DEF PlayerInv, TypeOK
<1>3. TypeOK'
  BY <1>1, <1>2, Rotations DEF PlayerInv, TypeOK
<1> QED  BY <1>1, <1>3 DEF PlayerInv, TokensBounded, Remembered, Ensuring, AppliedKept

LEMMA PlayerStep == PlayerInv /\ [Next]_vars => PlayerInv'
<1> SUFFICES ASSUME PlayerInv, [Next]_vars PROVE PlayerInv'
  OBVIOUS
<1>1. CASE UNCHANGED vars
  <2>1. TypeOK'
    BY <1>1 DEF vars, agentVars, playerVars, PlayerInv, TypeOK
  <2> QED  BY <1>1, <2>1 DEF vars, agentVars, playerVars, PlayerInv, TokensBounded, Remembered, Ensuring,
                             AppliedKept, Kept, Wanted
<1>2. CASE AgentStep
  <2>1. ASSUME NEW v \in Video, Ensure(v) \/ Download(v) \/ Transpose(v) \/ ItemFails(v)
        PROVE  PlayerInv'
    BY <2>1, ItemKeeps
  <2> QED  BY <1>2, <2>1, FetchKeeps, FetchFailsKeeps, BlankKeeps, ReconcileKeeps, PlayKeeps,
              HeartbeatKeeps DEF AgentStep
<1> QED  BY <1>1, <1>2, OperatorsKeep, MpvKeeps, RestartKeeps DEF Next

-----------------------------------------------------------------------------
\* agent.py: the agent, its cache and its player keep their types, whatever the operators
\* change and whenever mpv or the agent dies.
THEOREM TypeCorrect == Spec => []TypeOK
<1>1. PlayerInv => TypeOK
  BY DEF PlayerInv
<1> QED  BY <1>1, PlayerInitial, PlayerStep, PTL DEF Spec

\* agent.py:3-5: a config that was applied stays on disk and in the player until it changes.
THEOREM AppliedCorrect == Spec => []AppliedStays
<1>1. PlayerInv => AppliedStays
  <2>1. SUFFICES ASSUME PlayerInv, applied # {}
                 PROVE  /\ \A f \in Wanted(held) : disk[f] = held.ver[f[1]]
                        /\ m3u = Wanted(held) /\ current = m3u
    BY DEF AppliedStays
  <2>2. /\ held.videos # {} /\ current = Wanted(held) /\ \A v \in held.videos : Kept(v)
    BY <2>1 DEF PlayerInv, AppliedKept
  <2>3. current # {}
    <3>1. PICK v \in held.videos : TRUE
      BY <2>2
    <3>2. <<v, held.rot>> \in current
      BY <2>2, <3>1 DEF Wanted
    <3> QED  BY <3>2
  <2>4. m3u = current
    BY <2>1, <2>3 DEF PlayerInv, Remembered
  <2>5. ASSUME NEW f \in Wanted(held)
        PROVE  disk[f] = held.ver[f[1]]
    <3>1. PICK v \in held.videos : f = <<v, held.rot>>
      BY <2>5 DEF Wanted
    <3>2. f[1] = v
      BY <3>1
    <3> QED  BY <2>2, <3>1, <3>2 DEF Kept
  <2> QED  BY <2>2, <2>4, <2>5
<1> QED  BY <1>1, PlayerInitial, PlayerStep, PTL DEF Spec

\* The steps of the agent, one after the other.
LEMMA Undisturbed ==
  ASSUME PlayerInv, AgentStep, held' \in applied, held'.videos # {}, mpv = "up"
  PROVE  mpv' = "up" /\ pid' = pid
<1>1. applied = {held'} /\ held' = held /\ applied # {} /\ held.videos # {} /\ Alive
  BY DEF PlayerInv, TypeOK, Alive
<1>2. /\ lastToken = held.token /\ args = held.flags /\ current = Wanted(held)
      /\ pc = "ensure" => paths = (held.videos \ todo) \X {held.rot}
  BY <1>1 DEF PlayerInv, AppliedKept
<1>3. CASE Fetch
  <2>1. held' = server
    BY <1>3 DEF Fetch
  <2>2. lastToken = server.token /\ args = server.flags
    BY <2>1, <1>1, <1>2
  <2> QED  BY <2>2, <1>3 DEF Fetch
<1>4. CASE Blank
  BY <1>1, <1>4 DEF Blank
<1>5. CASE Play
  <2>1. pc = "ensure" /\ todo = {}
    BY <1>5 DEF Play
  <2>2. paths = current
    BY <2>1, <1>2 DEF Wanted
  <2> QED  BY <2>2, <1>1, <1>5 DEF Play, Launch, playerVars
<1>6. CASE Heartbeat
  BY <1>1, <1>6 DEF Heartbeat
<1>7. CASE FetchFails \/ Reconcile
  BY <1>7 DEF FetchFails, Reconcile, playerVars
<1>8. ASSUME NEW v \in Video, Ensure(v) \/ Download(v) \/ Transpose(v) \/ ItemFails(v)
      PROVE  mpv' = "up" /\ pid' = pid
  BY <1>8 DEF Ensure, Download, Transpose, ItemFails, playerVars
<1> QED  BY <1>3, <1>4, <1>5, <1>6, <1>7, <1>8 DEF AgentStep

\* player.py:3-6: a poll that brings the config that was applied, and the heartbeat, never
\* interrupt what is on screen.
THEOREM PlayingCorrect == Spec => UnchangedKeepsPlaying
<1>1. PlayerInv /\ [Next]_vars =>
        [AgentStep /\ held' \in applied /\ held'.videos # {} /\ mpv = "up" => mpv' = "up" /\ pid' = pid]_vars
  BY Undisturbed
<1> QED  BY <1>1, PlayerInitial, PlayerStep, PTL DEF Spec, UnchangedKeepsPlaying
===============================================================================
