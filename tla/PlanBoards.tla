----------------------------- MODULE PlanBoards ------------------------------
(* The boards of a project: every board has its own board.md with a status,   *)
(* and workspace.json lists the boards that are shown and names the active    *)
(* one, on which new issues are put. The handlers of the webs                 *)
(* (plan-board-handlers.ts) keep the two kinds of file in step, one handler   *)
(* at a time; the plan executor writes a status after an await, and a web     *)
(* sends the order it shows, which may be out of date.                        *)
EXTENDS Naturals, Sequences, FiniteSets, SequencesExt

CONSTANTS
    BoardWebs,    \* webs that show the boards
    MaxBoards     \* bound: boards of a project

ASSUME BoardsAssumption == MaxBoards \in Nat \ {0}

VARIABLES
    boardStatus,  \* status in each board.md, "none" while there is no board
    boardOrder,   \* workspace.json: the boards in the order they are shown
    activeBoard,  \* workspace.json: the active board, 0 for null
    webOrder,     \* what each web shows: a boardOrder, perhaps an older one
    runWrite,     \* the status the executor awaits to write, or NoWrite
    astray        \* boards of which the two files may differ: each step says why

boardVars == <<boardStatus, boardOrder, activeBoard, webOrder, runWrite, astray>>

Boards == 1 .. MaxBoards
NoWrite == [board |-> 0, to |-> "none"]
Existing == {b \in Boards : boardStatus[b] # "none"}
Shown == {b \in Existing : boardStatus[b] # "archived"}

\* getNextBoardId: one past the highest board that has a board.md.
NextBoard == Cardinality(Existing) + 1

BoardsTypeOK ==
    /\ boardStatus \in [Boards -> {"none", "draft", "active", "completed", "archived"}]
    /\ boardOrder \in BoundedSeq(Boards, MaxBoards)
    /\ activeBoard \in {0} \cup Boards
    /\ webOrder \in [BoardWebs -> BoundedSeq(Boards, MaxBoards)]
    /\ runWrite \in [board : {0} \cup Boards, to : {"none", "active", "completed"}]
    /\ astray \subseteq Boards

\* The first planInit scaffolds one draft board, or migrates the old layout into
\* one board, active if an issue had been started.
Scaffolded == "draft"
Migrated == {"draft", "active"}

BoardsInit ==
    /\ \E s \in {Scaffolded} \cup Migrated :
           boardStatus = [b \in Boards |-> IF b = 1 THEN s ELSE "none"]
    /\ boardOrder = <<1>> /\ activeBoard = 1
    /\ webOrder = [w \in BoardWebs |-> <<1>>]
    /\ runWrite = NoWrite
    /\ astray = {}

------------------------------------------------------------------------------
(* Handlers of the webs: each reads and writes its files in one go.           *)

NewBoard ==
    /\ Existing # Boards
    /\ boardStatus' = [boardStatus EXCEPT ![NextBoard] = "draft"]
    /\ boardOrder' = Append(boardOrder, NextBoard)
    /\ UNCHANGED <<webOrder, runWrite, astray>>

CreateBoard ==
    /\ NewBoard
    /\ activeBoard' = IF activeBoard = 0 THEN NextBoard ELSE activeBoard

\* A board made from a chat is active at once, for the prompt that fills it.
ChatToBoard == NewBoard /\ activeBoard' = NextBoard

\* The order filtered, and the active board that is left. Mutant: the active board
\* stays.
Without(order, b) ==
    LET kept[n \in 0 .. Len(order)] ==
          IF n = 0 THEN <<>>
          ELSE IF order[n] = b THEN kept[n - 1] ELSE Append(kept[n - 1], order[n])
    IN  kept[Len(order)]
OrderWithout(b) == Without(boardOrder, b)
ActiveKept(b) == activeBoard
ActiveWithout(b) ==
    IF activeBoard # b THEN activeBoard
    ELSE IF OrderWithout(b) = <<>> THEN 0 ELSE Head(OrderWithout(b))

\* The executor may be between its await and its write of the same board; else the
\* files agree about the board again.
HideBoard(b) ==
    /\ b \in Existing
    /\ boardStatus' = [boardStatus EXCEPT ![b] = "archived"]
    /\ boardOrder' = OrderWithout(b)
    /\ activeBoard' = ActiveWithout(b)
    /\ astray' = IF runWrite.board = b THEN astray \cup {b} ELSE astray \ {b}
    /\ UNCHANGED <<webOrder, runWrite>>

OrderWith(b) == IF b \in ToSet(boardOrder) THEN boardOrder ELSE Append(boardOrder, b)

\* handleRestoreBoard, which the dispatch table lacks (handler.ts:160). A web that has
\* not seen a board restored may restore it again.
ShowBoard(b) ==
    /\ b \in Existing
    /\ boardStatus' = [boardStatus EXCEPT ![b] = "active"]
    /\ boardOrder' = OrderWith(b)
    /\ activeBoard' = b
    /\ astray' = astray \ {b}
    /\ UNCHANGED <<webOrder, runWrite>>

\* The order a web sends is taken as it is: an order of the boards it shows, which
\* may lack some and name others.
ReorderBoards(w) ==
    \E s \in SetToSeqs(ToSet(webOrder[w])) :
        /\ s # boardOrder
        /\ boardOrder' = s
        /\ astray' = astray \cup (ToSet(s) \ ToSet(boardOrder))
                             \cup (ToSet(boardOrder) \ ToSet(s))
        /\ UNCHANGED <<boardStatus, activeBoard, webOrder, runWrite>>

\* No check that the board is still there to be shown.
SetActiveBoard(w) ==
    \E b \in ToSet(webOrder[w]) :
        /\ b # activeBoard
        /\ activeBoard' = b
        /\ astray' = IF b \in ToSet(boardOrder) THEN astray ELSE astray \cup {b}
        /\ UNCHANGED <<boardStatus, boardOrder, webOrder, runWrite>>

\* The fields of handleUpdateBoard may hold any status; workspace.json is not touched.
UpdateBoard(w, s) ==
    \E b \in ToSet(webOrder[w]) :
        /\ boardStatus[b] # s
        /\ boardStatus' = [boardStatus EXCEPT ![b] = s]
        /\ astray' = IF "archived" \in {s, boardStatus[b]} THEN astray \cup {b} ELSE astray
        /\ UNCHANGED <<boardOrder, activeBoard, webOrder, runWrite>>

\* planScaffold writes the files of a new project over those of this one.
Scaffold ==
    /\ boardStatus' = [boardStatus EXCEPT ![1] = Scaffolded]
    /\ boardOrder' = <<1>> /\ activeBoard' = 1
    /\ astray' = (astray \cup Shown) \ {1}
    /\ UNCHANGED <<webOrder, runWrite>>

\* planWorkspaceUpdated reaches a web: what it shows may have lagged until then.
WebSeesBoards(w) ==
    /\ webOrder[w] # boardOrder
    /\ webOrder' = [webOrder EXCEPT ![w] = boardOrder]
    /\ UNCHANGED <<boardStatus, boardOrder, activeBoard, runWrite, astray>>

------------------------------------------------------------------------------
(* The executor activates a draft board, and completes an active one.         *)

RunReads(b) ==
    /\ runWrite = NoWrite /\ boardStatus[b] \in {"draft", "active"}
    /\ runWrite' = [board |-> b,
                    to |-> IF boardStatus[b] = "draft" THEN "active" ELSE "completed"]
    /\ UNCHANGED <<boardStatus, boardOrder, activeBoard, webOrder, astray>>

\* A draft board whose issues are all done is completed right after its activation,
\* with no second look at its status.
RunWrites ==
    /\ runWrite # NoWrite
    /\ boardStatus' = [boardStatus EXCEPT ![runWrite.board] = runWrite.to]
    /\ \/ runWrite' = NoWrite
       \/ runWrite.to = "active" /\ runWrite' = [runWrite EXCEPT !.to = "completed"]
    /\ UNCHANGED <<boardOrder, activeBoard, webOrder, astray>>

BoardsNext ==
    \/ CreateBoard \/ ChatToBoard
    \/ \E b \in Boards : HideBoard(b) \/ ShowBoard(b) \/ RunReads(b)
    \/ \E w \in BoardWebs : ReorderBoards(w) \/ SetActiveBoard(w) \/ WebSeesBoards(w)
    \/ \E w \in BoardWebs, s \in {"draft", "active", "completed", "archived"} : UpdateBoard(w, s)
    \/ Scaffold \/ RunWrites

BoardsSpec == BoardsInit /\ [][BoardsNext]_boardVars

------------------------------------------------------------------------------
\* However late the webs are and whatever the executor writes between two handlers,
\* no board is listed twice and every board that is named has its files.
BoardsListedOnce ==
    /\ IsInjective(boardOrder)
    /\ ToSet(boardOrder) \subseteq Existing
    /\ activeBoard # 0 => activeBoard \in Existing

\* That, and the two files agree about every board that no web named in an order that
\* was out of date, whose status no web set to or from archived by itself, that was not
\* left out by a new scaffold and not archived under a write of the executor; when such
\* a board is archived or restored they agree again. The active board is then one that
\* is shown: new issues do not land on an archived board, which no run can load.
BoardsInPlace ==
    /\ BoardsTypeOK /\ BoardsListedOnce
    /\ \A b \in Boards \ astray : b \in ToSet(boardOrder) <=> b \in Shown
    /\ activeBoard \in Shown \cup astray \/ (activeBoard = 0 /\ Shown \subseteq astray)
=============================================================================
