------------------------------ MODULE Terminals ------------------------------
(* The shells of the web's terminals: pty-manager.ts keeps a PTY for each     *)
(* terminal's id, gathers its output and keeps the latest for those who come  *)
(* later; terminal-handlers.ts gives it to the subscribed webs. The output of *)
(* a PTY is counted in pieces. create() awaits nothing, so that opening is one*)
(* step. node-pty and the shells are external.                                *)
EXTENDS Naturals, FiniteSets

CONSTANTS
  Terms,          \* ids of terminals
  Screens,        \* webs
  Ptys,           \* bound: PTYs started, numbers from 1
  MaxOutput,      \* bound: pieces of output of each PTY
  Scrollback      \* SCROLLBACK_MAX_LENGTH, in pieces

ASSUME TerminalsAssumption ==
  /\ Terms # {} /\ Ptys = 1..Cardinality(Ptys) /\ IsFiniteSet(Ptys)
  /\ MaxOutput \in Nat /\ Scrollback \in Nat

VARIABLES
  connected,    \* webs with a connection (allConnections)
  session,      \* PTYManager.terminals: the PTY of each id, 0 for none
  pty,          \* each PTY: its id, its process, pieces made and handed out
  subscribers,  \* terminalSubscribers
  listening,    \* ids with listeners (terminalListenerCleanups)
  screen,       \* what each web was sent of each id: PTY, pieces from and to, exit,
                \* and whether something of another PTY was among it
  crossed       \* history: PTYs opened before an older one of their id had exited

terminalVars == <<connected, session, pty, subscribers, listening, screen, crossed>>

Blank == [pty |-> 0, from |-> 0, upto |-> 0, ended |-> FALSE, foreign |-> FALSE]
TerminalsTypeOK ==
  /\ connected \subseteq Screens
  /\ session \in [Terms -> Ptys \cup {0}]
  /\ pty \in [Ptys -> [id : Terms, process : {"none", "running", "killed", "exited"},
                       made : 0..MaxOutput, flushed : 0..MaxOutput]]
  /\ \A k \in Ptys : pty[k].flushed <= pty[k].made
  /\ subscribers \in [Terms -> SUBSET Screens] /\ listening \subseteq Terms
  /\ screen \in [Screens -> [Terms ->
       [pty : Ptys \cup {0}, from : 0..MaxOutput, upto : 0..MaxOutput,
        ended : BOOLEAN, foreign : BOOLEAN]]]
  /\ crossed \subseteq Ptys

TerminalsInit ==
  /\ connected = {} /\ session = [t \in Terms |-> 0]
  /\ pty \in [Ptys -> [id : {CHOOSE t \in Terms : TRUE}, process : {"none"},
                       made : {0}, flushed : {0}]]
  /\ subscribers = [t \in Terms |-> {}] /\ listening = {}
  /\ screen = [w \in Screens |-> [t \in Terms |-> Blank]]
  /\ crossed = {}

\* The scrollback of a PTY has its latest pieces, flushed or not.
Scrolled(k) ==
  [Blank EXCEPT !.pty = k, !.upto = pty[k].made,
                !.from = IF pty[k].made > Scrollback THEN pty[k].made - Scrollback ELSE 0]

\* Mutant: a web that comes later waits for new output.
NotScrolled(k) == [Blank EXCEPT !.pty = k]

ShowScrollback(k) == Scrolled(k)

Subscribed(w, t) ==
  /\ subscribers' = [subscribers EXCEPT ![t] = @ \cup {w}]
  /\ listening' = listening \cup {t}

\* handleTerminalInit where the id has a PTY, and handleTerminalReconnect:
\* subscribe, listen, resize, and send the scrollback.
Reopen(w, t) ==
  /\ session[t] # 0
  /\ w \in connected /\ Subscribed(w, t)
  /\ screen' = [screen EXCEPT ![w][t] = ShowScrollback(session[t])]
  /\ UNCHANGED <<connected, session, pty, crossed>>

\* handleTerminalInit where it has none; a PTY that was killed under the id may
\* still be there.
Free == {k \in Ptys : pty[k].process = "none"}
Open(w, t) ==
  /\ session[t] = 0 /\ Free # {}
  /\ \E k \in Free :
       /\ \A j \in Free : k <= j
       /\ session' = [session EXCEPT ![t] = k]
       /\ pty' = [pty EXCEPT ![k] = [id |-> t, process |-> "running", made |-> 0, flushed |-> 0]]
       /\ screen' = [screen EXCEPT ![w][t] = [Blank EXCEPT !.pty = k]]
       /\ crossed' = IF \E j \in Ptys : pty[j].id = t /\ pty[j].process \in {"running", "killed"}
                      THEN crossed \cup {k} ELSE crossed
  /\ w \in connected /\ Subscribed(w, t) /\ UNCHANGED connected

\* The rest of handleTerminalInit when the shell cannot be spawned: the last
\* subscriber takes the listeners with it (removeTerminalSubscriber).
OpenFails(w, t) ==
  /\ w \in connected /\ session[t] = 0
  /\ subscribers' = [subscribers EXCEPT ![t] = @ \ {w}]
  /\ listening' = IF subscribers[t] \subseteq {w} THEN listening \ {t} ELSE listening \cup {t}
  /\ UNCHANGED <<connected, session, pty, screen, crossed>>

\* onData: the piece goes to the scrollback and waits in the output buffer.
Output(k) ==
  /\ pty[k].process \in {"running", "killed"} /\ pty[k].made < MaxOutput
  /\ pty' = [pty EXCEPT ![k].made = @ + 1]
  /\ UNCHANGED <<connected, session, subscribers, listening, screen, crossed>>

\* onOutput: the listeners give what was buffered, or the exit, to whoever is
\* subscribed to the id, whichever PTY of the id it comes from. A web that missed a
\* piece before keeps the gap.
Watching(t) == IF t \in listening THEN subscribers[t] ELSE {}
Sent(s, k, ended) ==
  IF s.pty # k THEN [s EXCEPT !.ended = ended, !.foreign = TRUE]
  ELSE [s EXCEPT !.ended = ended, !.upto = IF s.upto >= pty[k].flushed THEN pty[k].made ELSE s.upto]
Given(k, ended) ==
  [w \in Screens |-> [screen[w] EXCEPT ![pty[k].id] =
     IF w \in Watching(pty[k].id) THEN Sent(@, k, ended) ELSE @]]

\* flushOutputBuffer, by its timer or by its high water mark.
Flush(k) ==
  /\ pty[k].process # "none" /\ pty[k].flushed < pty[k].made
  /\ pty' = [pty EXCEPT ![k].flushed = pty[k].made]
  /\ screen' = Given(k, FALSE)
  /\ UNCHANGED <<connected, session, subscribers, listening, crossed>>

\* onExit of the PTY flushes the rest, then the listeners tell the exit.
ToldExit(k) == Given(k, TRUE)

\* The shell ends, by itself or killed: onExit and its listeners. The PTY's id
\* leaves the map, whoever has it.
Exit(k) ==
  /\ pty[k].process \in {"running", "killed"}
  /\ pty' = [pty EXCEPT ![k].process = "exited", ![k].flushed = pty[k].made]
  /\ session' = [session EXCEPT ![pty[k].id] = 0]
  /\ screen' = ToldExit(k)
  /\ listening' = listening \ {pty[k].id}
  /\ subscribers' = [subscribers EXCEPT
       ![pty[k].id] = IF pty[k].id \in listening THEN {} ELSE @]
  /\ UNCHANGED <<connected, crossed>>

\* handleTerminalClose: the listeners go first, so that what close() still
\* flushes reaches nobody; then the PTY is killed and leaves the map.
Close(t) ==
  /\ listening' = listening \ {t}
  /\ subscribers' = [subscribers EXCEPT ![t] = {}]
  /\ session' = [session EXCEPT ![t] = 0]
  /\ pty' = [k \in Ptys |-> IF k = session[t]
                             THEN [pty[k] EXCEPT !.process = "killed", !.flushed = pty[k].made]
                             ELSE pty[k]]
  /\ UNCHANGED <<connected, screen, crossed>>

Connect(w) ==
  /\ w \notin connected
  /\ connected' = connected \cup {w}
  /\ UNCHANGED <<session, pty, subscribers, listening, screen, crossed>>

\* handleClose and cleanupTerminalSubscribers: terminals nobody watches lose
\* their listeners; once no web is connected, all PTYs are closed (closeAll).
Reaped(rest) == IF rest = {} THEN {session[t] : t \in Terms} ELSE {}
Disconnect(w) ==
  /\ w \in connected
  /\ connected' = connected \ {w}
  /\ subscribers' = [t \in Terms |-> subscribers[t] \ {w}]
  /\ listening' = {t \in listening : subscribers[t] \ {w} # {}}
  /\ screen' = [screen EXCEPT ![w] = [t \in Terms |-> Blank]]
  /\ session' = IF connected = {w} THEN [t \in Terms |-> 0] ELSE session
  /\ pty' = [k \in Ptys |-> IF k \in Reaped(connected \ {w})
                             THEN [pty[k] EXCEPT !.process = "killed", !.flushed = pty[k].made]
                             ELSE pty[k]]
  /\ UNCHANGED crossed

TerminalsNext ==
  \/ \E k \in Ptys : Output(k) \/ Flush(k) \/ Exit(k)
  \/ \E t \in Terms : Close(t)
  \/ \E w \in Screens, t \in Terms : Reopen(w, t) \/ Open(w, t) \/ OpenFails(w, t)
  \/ \E w \in Screens : Connect(w) \/ Disconnect(w)

TerminalsSpec == TerminalsInit /\ [][TerminalsNext]_terminalVars
-----------------------------------------------------------------------------
\* A web that is subscribed to a terminal has all its shell has handed out, live or
\* from the scrollback: without a gap, and from the first piece unless the scrollback had
\* dropped it; the exit it is told comes after all output. Over reconnects of webs, shells
\* that exit and terminals closed by others, something of another shell is shown only
\* where the id was opened again before that shell had exited.
TerminalsShowAll ==
  \A w \in Screens, t \in Terms :
    /\ w \in subscribers[t] =>
         /\ t \in listening /\ session[t] # 0 /\ screen[w][t].pty = session[t]
         /\ screen[w][t].upto >= pty[session[t]].flushed
         /\ screen[w][t].from # 0 => screen[w][t].upto - screen[w][t].from >= Scrollback
    /\ screen[w][t].ended /\ ~ screen[w][t].foreign =>
         screen[w][t].upto = pty[screen[w][t].pty].made
    /\ screen[w][t].foreign => screen[w][t].pty \in crossed

\* Every running shell is in the map, where it can be written to and closed, but one
\* that was opened before an older one of its id had exited; and listeners stand exactly
\* where somebody watches.
NoShellForgotten ==
  /\ \A k \in Ptys \ crossed : pty[k].process = "running" => session[pty[k].id] = k
  /\ \A t \in Terms : t \in listening <=> subscribers[t] # {}
=============================================================================
