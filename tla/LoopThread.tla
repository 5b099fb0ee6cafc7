------------------------------ MODULE LoopThread ------------------------------
(***************************************************************************)
(* An EventLoopThread: the thread that owns an EventLoop, and the thread    *)
(* that starts it, waits for its loop, and in the end stops and joins it.   *)
(* The loop's wakeups are those of EventLoop: here a loop that has          *)
(* something to do does not sleep.                                          *)
(***************************************************************************)
EXTENDS Sequences

VARIABLES
  made,         \* _mutex and _cond have been constructed
  published,    \* whether _loop is set
  phase,        \* what the new thread is doing: "none", "building", "stuck",
                \* "entering", "test", "poll", "handle", "functors", "ended"
  quit,         \* _quit of its EventLoop
  owner         \* what the thread that owns the EventLoopThread is doing

thread == <<made, published, phase, quit, owner>>

ThreadInit == /\ made = FALSE /\ published = FALSE /\ phase = "none"
              /\ quit = FALSE /\ owner = "new"

Calls(from, to) == owner = from /\ owner' = to

\* The constructor starts the thread before it has constructed _mutex and _cond.
BeginConstructor ==
  /\ Calls("new", "making") /\ phase' = "building"
  /\ UNCHANGED <<made, published, quit>>

EndConstructor ==
  /\ Calls("making", "starting") /\ made' = TRUE
  /\ UNCHANGED <<published, phase, quit>>

MutPublish ==               \* leaves _loop null
  /\ phase = "building" /\ phase' = "entering"
  /\ UNCHANGED <<made, published, quit, owner>>

\* Locking a mutex that is not constructed yet is undefined: it may work or not.
Publish ==
  /\ phase = "building"
  /\ \/ phase' = "entering" /\ published' = TRUE
     \/ ~made /\ phase' = "stuck" /\ UNCHANGED published
  /\ UNCHANGED <<made, quit, owner>>

StartLoop ==
  /\ published /\ Calls("starting", "ready")
  /\ UNCHANGED <<made, published, phase, quit>>

\* loop() begins by clearing _quit.
EnterLoop ==
  /\ phase = "entering" /\ phase' = "test" /\ quit' = FALSE
  /\ UNCHANGED <<made, published, owner>>

\* The condition of the loop; what is still queued goes with the EventLoop.
Test(leave) ==
  /\ phase = "test" /\ leave = quit
  /\ phase' = IF leave THEN "ended" ELSE "poll"
  /\ UNCHANGED <<made, published, quit, owner>>

Destructor ==
  /\ Calls("ready", "joining") /\ quit' = TRUE
  /\ UNCHANGED <<made, published, phase>>

Join ==
  /\ phase = "ended" /\ Calls("joining", "done")
  /\ UNCHANGED <<made, published, phase, quit>>

Moves(from, to) ==
  /\ phase = from /\ phase' = to /\ UNCHANGED <<made, published, quit, owner>>
=============================================================================
