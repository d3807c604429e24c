--------------------------- MODULE SignagePlayer ---------------------------
(***************************************************************************)
(* What a signage screen shows: the config the server hands out            *)
(* (signage/signage.service.ts), the agent's tick that reconciles its disk *)
(* and its video player with it (signage_agent/agent.py), the download and *)
(* pre-rotation cache (cache.py) and the mpv process (player.py).          *)
(*                                                                         *)
(* The agent is one thread.  A tick is cut at its slow operations: the     *)
(* poll, each download, each transpose; between them the operators change  *)
(* the config, mpv dies, or the agent is restarted.  A playlist is the set *)
(* of its files; its order is not modelled.                                *)
(***************************************************************************)
EXTENDS Integers, FiniteSets

CONSTANTS
  Video,
  Turned,      \* mount rotations other than 0
  Flags,       \* mpv flag lists a performance profile resolves to
  LocalFlags,  \* the flag list of the device's own config file
  MaxVersion,  \* bound: contents a video goes through (upload, transcodes)
  MaxChanges,  \* bound: changes made by the operators
  MaxFaults    \* bound: mpv deaths and agent restarts

ASSUME PlayerAssumption ==
  /\ 0 \notin Turned /\ -1 \notin Turned
  /\ MaxVersion \in Nat \ {0} /\ MaxChanges \in Nat /\ MaxFaults \in Nat

Rotation == Turned \cup {0}
File == Video \X Rotation    \* <<v, 0>> is the download, <<v, r>> its rotated sibling

VARIABLES
  server,    \* what getConfig answers for the device
  changes,   \* operator changes so far
  pc,        \* where the agent is in its tick
  held,      \* the config the agent is applying
  lastToken, \* Agent.last_resync_token, 0 for None
  lastRot,   \* Agent.last_rotation, -1 for None
  todo,      \* items of the config still to be ensured
  paths,     \* files ensured for the next play
  disk,      \* version of each cached file, 0 when it is missing
  args,      \* MpvPlayer.extra_args
  current,   \* MpvPlayer._current
  m3u,       \* the playlist file mpv was started with
  mpv,       \* the process: off, up, or up but idle (no entry it can play)
  pid,       \* which process it is (alternates)
  applied,   \* history: the config, once a tick has applied all of it
  faults

agentVars == <<pc, held, lastToken, lastRot, todo, paths>>
playerVars == <<args, current, m3u, mpv, pid>>
vars == <<server, changes, agentVars, disk, playerVars, applied, faults>>

Config == [videos : SUBSET Video, ver : [Video -> 1 .. MaxVersion],
           token : 0 .. MaxChanges, flags : Flags, rot : Rotation]

TypeOK ==
  /\ server \in Config /\ changes \in 0 .. MaxChanges
  /\ pc \in {"idle", "reconcile", "ensure", "beat"}
  /\ held \in Config
  /\ lastToken \in 0 .. MaxChanges
  /\ lastRot \in Rotation \cup {-1}
  /\ todo \subseteq Video /\ paths \subseteq File
  /\ disk \in [File -> 0 .. MaxVersion]
  /\ args \in Flags \cup {LocalFlags}
  /\ current \subseteq File /\ m3u \subseteq File
  /\ mpv \in {"off", "up", "idle"} /\ pid \in {0, 1}
  /\ applied \subseteq {held}
  /\ faults \in 0 .. MaxFaults

Alive == mpv # "off"

\* The files a device that has applied config c plays.
Wanted(c) == c.videos \X {c.rot}

-----------------------------------------------------------------------------
(* The operators change what getConfig answers.                            *)

Change(c) ==
  /\ changes < MaxChanges
  /\ server' = c
  /\ changes' = changes + 1
  /\ UNCHANGED <<agentVars, disk, playerVars, applied, faults>>

\* Assignments, playlist edits, brand and orientation filters.
Assign == \E S \in SUBSET Video : S # server.videos /\ Change([server EXCEPT !.videos = S])

\* A finished transcode gives the video a variant with a checksum of its own.
Publish ==
  \E v \in Video : /\ server.ver[v] < MaxVersion
                   /\ Change([server EXCEPT !.ver[v] = @ + 1])

Rotate == \E r \in Rotation : r # server.rot /\ Change([server EXCEPT !.rot = r])
SetProfile == \E f \in Flags : f # server.flags /\ Change([server EXCEPT !.flags = f])
ForceResync == Change([server EXCEPT !.token = @ + 1])

\* updateDevice: another orientation or brand selects other items and forces a
\* resync with it.
Retarget ==
  \E S \in SUBSET Video, r \in Rotation :
    /\ <<S, r>> # <<server.videos, server.rot>>
    /\ Change([server EXCEPT !.videos = S, !.rot = r, !.token = @ + 1])

-----------------------------------------------------------------------------
(* The tick: poll, resync, flags.                                          *)

Empty == [f \in File |-> 0]

\* mutant: every poll that carries a resync token purges
FetchPurging ==
  LET purge == server.token # 0 /\ lastToken # 0
      reflag == server.flags # args IN
  /\ pc = "idle" /\ pc' = "reconcile"
  /\ held' = server
  /\ applied' = applied \cap {server}
  /\ lastToken' = server.token
  /\ disk' = IF purge THEN Empty ELSE disk
  /\ args' = server.flags
  /\ current' = IF reflag THEN {} ELSE current
  /\ mpv' = IF purge \/ reflag THEN "off" ELSE mpv
  /\ UNCHANGED <<server, changes, lastRot, todo, paths, m3u, pid, faults>>

\* A resync token the agent has not seen purges the cache, except the first
\* one after it started; changed flags forget the playlist, so that the next
\* play starts mpv again.
Fetch ==
  LET purge == server.token # lastToken /\ lastToken # 0
      reflag == server.flags # args IN
  /\ pc = "idle" /\ pc' = "reconcile"
  /\ held' = server
  /\ applied' = applied \cap {server}
  /\ lastToken' = server.token
  /\ disk' = IF purge THEN Empty ELSE disk
  /\ args' = server.flags
  /\ current' = IF reflag THEN {} ELSE current
  /\ mpv' = IF purge \/ reflag THEN "off" ELSE mpv
  /\ UNCHANGED <<server, changes, lastRot, todo, paths, m3u, pid, faults>>

\* No items: stop, without forgetting the playlist, and prune everything.
Blank ==
  /\ pc = "reconcile" /\ pc' = "beat"
  /\ held.videos = {}
  /\ mpv' = "off"
  /\ disk' = Empty
  /\ UNCHANGED <<server, changes, held, lastToken, lastRot, todo, paths, args, current,
                 m3u, pid, applied, faults>>

\* After a rotation change only the siblings of the new rotation are kept.
Reconcile ==
  /\ pc = "reconcile" /\ pc' = "ensure"
  /\ held.videos # {}
  /\ disk' = IF lastRot \notin {-1, held.rot}
               THEN [f \in File |-> IF f[2] \in {0, held.rot} THEN disk[f] ELSE 0]
               ELSE disk
  /\ lastRot' = held.rot
  /\ todo' = held.videos
  /\ paths' = {}
  /\ UNCHANGED <<server, changes, held, lastToken, playerVars, applied, faults>>

-----------------------------------------------------------------------------
(* The tick: ensure every item, one after the other.                       *)

Valid(v) == disk[<<v, 0>>] = held.ver[v]

\* mutant: a sibling is used whatever it was made from
UsableOnceMade(v) == Valid(v) /\ disk[<<v, held.rot>>] # 0

\* The wanted file is there: the download itself, or a sibling made after it.
Usable(v) == Valid(v) /\ disk[<<v, held.rot>>] = held.ver[v]

Ensured(v, f) ==
  /\ todo' = todo \ {v}
  /\ paths' = paths \cup {f}

Ensure(v) ==
  /\ pc = "ensure" /\ v \in todo
  /\ Usable(v)
  /\ Ensured(v, <<v, held.rot>>)
  /\ UNCHANGED <<server, changes, pc, held, lastToken, lastRot, disk, playerVars, applied,
                 faults>>

\* Verified against the checksum, then moved into place.
Download(v) ==
  /\ pc = "ensure" /\ v \in todo
  /\ ~Valid(v)
  /\ disk' = [disk EXCEPT ![<<v, 0>>] = held.ver[v]]
  /\ UNCHANGED <<server, changes, agentVars, playerVars, applied, faults>>

Transpose(v) ==
  /\ pc = "ensure" /\ v \in todo
  /\ Valid(v) /\ ~Usable(v)
  /\ disk' = [disk EXCEPT ![<<v, held.rot>>] = held.ver[v]]
  /\ Ensured(v, <<v, held.rot>>)
  /\ UNCHANGED <<server, changes, pc, held, lastToken, lastRot, playerVars, applied, faults>>

\* A failed download skips the item; a failed transpose plays it unrotated.
ItemFails(v) ==
  /\ pc = "ensure" /\ v \in todo
  /\ ~Usable(v)
  /\ IF Valid(v) THEN Ensured(v, <<v, 0>>) ELSE todo' = todo \ {v} /\ UNCHANGED paths
  /\ UNCHANGED <<server, changes, pc, held, lastToken, lastRot, disk, playerVars, applied,
                 faults>>

-----------------------------------------------------------------------------
(* The tick: play, heartbeat.                                              *)

\* mutant: play does nothing while mpv is alive
LaunchIfDead(new) ==
  IF Alive THEN UNCHANGED <<current, m3u, mpv, pid>>
           ELSE /\ current' = new
                /\ m3u' = new
                /\ mpv' = "up"
                /\ pid' = 1 - pid

\* MpvPlayer.play, for a playlist that is not empty.
Launch(new) ==
  IF new = current /\ Alive
    THEN UNCHANGED <<current, m3u, mpv, pid>>
    ELSE /\ current' = new
         /\ m3u' = new
         /\ mpv' = "up"
         /\ pid' = 1 - pid

\* Without any playable item the playback is left alone, and nothing is pruned.
Play ==
  /\ pc = "ensure" /\ todo = {} /\ pc' = "beat"
  /\ IF paths = {}
       THEN UNCHANGED <<disk, playerVars, applied>>
       ELSE /\ disk' = [f \in File |-> IF f[1] \in held.videos THEN disk[f] ELSE 0]
            /\ applied' = IF paths = Wanted(held) THEN {held} ELSE {}
            /\ Launch(paths)
            /\ UNCHANGED args
  /\ UNCHANGED <<server, changes, held, lastToken, lastRot, todo, paths, faults>>

\* An offline server leaves everything as it is.
FetchFails ==
  /\ pc = "idle" /\ pc' = "beat"
  /\ UNCHANGED <<server, changes, held, lastToken, lastRot, todo, paths, disk, playerVars,
                 applied, faults>>

\* ensure_alive: start mpv again with the playlist file it had.
Heartbeat ==
  /\ pc = "beat" /\ pc' = "idle"
  /\ IF current # {} /\ ~Alive
       THEN mpv' = "up" /\ pid' = 1 - pid
       ELSE UNCHANGED <<mpv, pid>>
  /\ todo' = {} /\ paths' = {}
  /\ UNCHANGED <<server, changes, held, lastToken, lastRot, disk, args, current, m3u,
                 applied, faults>>

-----------------------------------------------------------------------------
(* mpv and the service manager.                                            *)

\* mpv drops a playlist whose every entry failed to open, and then idles.
MpvRunsDry ==
  /\ mpv = "up" /\ \A f \in m3u : disk[f] = 0
  /\ mpv' = "idle"
  /\ UNCHANGED <<server, changes, agentVars, disk, args, current, m3u, pid, applied, faults>>

\* A crash, or the RESTART_MPV command.
MpvDies ==
  /\ Alive /\ faults < MaxFaults
  /\ mpv' = "off"
  /\ faults' = faults + 1
  /\ UNCHANGED <<server, changes, agentVars, disk, args, current, m3u, pid, applied>>

\* The service or the machine restarts: the cache survives, mpv does not.
AgentRestart ==
  /\ faults < MaxFaults
  /\ pc' = "idle"
  /\ lastToken' = 0 /\ lastRot' = -1
  /\ todo' = {} /\ paths' = {}
  /\ args' = LocalFlags /\ current' = {} /\ mpv' = "off"
  /\ applied' = {}
  /\ faults' = faults + 1
  /\ UNCHANGED <<server, changes, held, disk, m3u, pid>>

-----------------------------------------------------------------------------
Init ==
  /\ server \in [videos : SUBSET Video, ver : {[v \in Video |-> 1]}, token : {0},
                 flags : Flags, rot : {0}]
  /\ changes = 0 /\ faults = 0
  /\ pc = "idle" /\ held = server
  /\ lastToken = 0 /\ lastRot = -1
  /\ todo = {} /\ paths = {}
  /\ disk = Empty
  /\ args = LocalFlags /\ current = {} /\ m3u = {} /\ mpv = "off" /\ pid = 0
  /\ applied = {}

OperatorStep == Assign \/ Publish \/ Rotate \/ SetProfile \/ ForceResync \/ Retarget

AgentStep ==
  \/ Fetch \/ FetchFails \/ Blank \/ Reconcile
  \/ \E v \in Video : Ensure(v) \/ Download(v) \/ Transpose(v) \/ ItemFails(v)
  \/ Play \/ Heartbeat

Next == OperatorStep \/ AgentStep \/ MpvRunsDry \/ MpvDies \/ AgentRestart

Spec == Init /\ [][Next]_vars

\* The loop ticks for ever; the server, a download and a transpose that are tried
\* again and again succeed in the end.
FairSpec ==
  /\ Spec
  /\ WF_vars(AgentStep)
  /\ SF_vars(Fetch)
  /\ \A v \in Video : SF_vars(Download(v)) /\ SF_vars(Transpose(v))

-----------------------------------------------------------------------------
(* Properties.                                                             *)

\* agent.py:3-5.  Once a config has been applied, its files stay on disk, in the
\* version and rotation it asked for, and mpv is (re)started on exactly them,
\* through failed polls, mpv deaths and heartbeats, until the config changes.
AppliedStays ==
  applied # {} /\ held.videos # {} =>
    /\ \A f \in Wanted(held) : disk[f] = held.ver[f[1]]
    /\ m3u = Wanted(held) /\ current = m3u

\* player.py:3-6.  A poll that brings the config that was already applied, and
\* the heartbeat, never interrupt what is on screen.
UnchangedKeepsPlaying ==
  [][AgentStep /\ held' \in applied /\ held'.videos # {} /\ mpv = "up"
       => mpv' = "up" /\ pid' = pid]_vars

\* What a screen shows.
Showing == IF mpv = "up" THEN {f \in m3u : disk[f] # 0} ELSE {}

\* When the operators leave the config alone, every screen comes to show exactly
\* its current videos, in their current version and rotation, or stays dark when
\* it has none; the one exception is an mpv that idles (PlayStartsShowing).
SettledIsShown ==
  <>[](\/ /\ Showing = Wanted(server)
          /\ \A f \in Showing : disk[f] = server.ver[f[1]]
       \/ mpv = "idle")

\* player.py:64-65: "Ensure mpv is looping exactly `paths`.  No-op if that's
\* already what's playing and mpv is alive."
PlayStartsShowing == [][Play /\ paths # {} => mpv' = "up" /\ m3u' = paths]_vars
=============================================================================
