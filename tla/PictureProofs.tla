--------------------------- MODULE PictureProofs ----------------------------
(***************************************************************************)
(* Proofs about the animated picture, for any number of threads, handle    *)
(* values and frames: no frame is read after it was released, a null       *)
(* handle means that nothing animates, the request to exit is held until   *)
(* the thread has left its loop, and the rest of the safety properties.    *)
(***************************************************************************)
EXTENDS PictureAnimation, TLAPS

(* What the theorems ask of the application and of the scheduler: Draw     *)
(* only when the last thread is gone, and a Stop whose wait suffices.      *)
Cautious == ~DrawTwice /\ ~DrawAtOnce /\ ~WaitExpires

(* A thread that still needs its handle: it animates, has not begun, or is *)
(* about to close it.                                                      *)
Busy(t) == Animating(t) \/ pc[t] \in {"suspended", "close"}

(* Where Stop, UnLoad and Load rely on there being no such thread. *)
Quiet == {"stopClose", "stopNull", "stopReset", "stopClear", "unload", "load",
          "destroyed"}

Place == {"begin", "restore", "loop", "render", "rendered", "delay", "delayed",
          "dispose", "wrap", "leave", "suspended", "close", "zero", "done"}

-----------------------------------------------------------------------------
(* Whose the handle is. *)

HandleTypes ==
  /\ pc \in [Thread -> Place]
  /\ handle \in [Handle -> Thread \cup {NoThread}]
  /\ m_hThread \in Handle \cup {NULL}
  /\ waits \in Thread \cup {NoThread}

OneLive == \A t, u \in Thread : pc[t] # "done" /\ pc[u] # "done" => t = u

HandleHeld == \A t \in Thread : Busy(t) => /\ m_hThread \in Handle
                                           /\ handle[m_hThread] = t

WaitedFor == \A t \in Thread :
  /\ Busy(t) => gui \notin Quiet /\ (gui = "stopWaiting" => waits = t)
  /\ pc[t] = "suspended" => gui = "resume"

HandleInv == HandleTypes /\ OneLive /\ HandleHeld /\ WaitedFor

LEMMA InitHandle == Init => HandleInv
BY PictureAssumption
   DEF Init, HandleInv, HandleTypes, OneLive, HandleHeld, WaitedFor, Busy,
       Animating, Place, Quiet

(* A step of a thread that touches no handle. *)
LEMMA ThreadHandle ==
  ASSUME HandleInv, NEW t \in Thread, NEW from, NEW to,
         ThreadAt(t, from, to),
         from \in {"begin", "restore", "loop", "render", "rendered", "delay",
                   "delayed", "dispose", "wrap", "leave"},
         to \in Place \ {"suspended", "done", "zero"},
         UNCHANGED <<m_hThread, handle>>
  PROVE  HandleInv'
<1>1. Busy(t) /\ pc' = [pc EXCEPT ![t] = to] /\ pc[t] = from
  BY DEF Busy, Animating, ThreadAt
<1>2. \A u \in Thread : u # t => pc'[u] = pc[u]
  BY <1>1 DEF HandleInv, HandleTypes
<1>3. pc'[t] = to
  BY <1>1 DEF HandleInv, HandleTypes
<1>4. /\ gui' = gui /\ waits' = waits /\ m_hThread' = m_hThread
      /\ handle' = handle
  BY DEF ThreadAt
<1>5. HandleTypes'
  BY <1>1, <1>4 DEF HandleInv, HandleTypes, Place
<1>6. OneLive'
  BY <1>1, <1>2, <1>3 DEF HandleInv, OneLive
<1>7. \A u \in Thread : Busy(u)' => Busy(u)
  BY <1>1, <1>2 DEF Busy, Animating
<1>8. HandleHeld'
  BY <1>4, <1>7 DEF HandleInv, HandleHeld
<1>9. \A u \in Thread : pc'[u] = "suspended" => pc[u] = "suspended"
  BY <1>2, <1>3
<1>10. WaitedFor'
  BY <1>4, <1>7, <1>9 DEF HandleInv, WaitedFor
<1> QED BY <1>5, <1>6, <1>8, <1>10 DEF HandleInv

LEMMA ThreadStepHandle ==
  ASSUME HandleInv, NEW t \in Thread, ThreadStep(t)
  PROVE  HandleInv'
<1>1. CASE Begin(t) \/ Restore(t) \/ LoopTest(t) \/ Render(t) \/ TestRendered(t)
           \/ Delay(t) \/ TestDelayed(t) \/ Dispose(t) \/ Wrap(t) \/ Leave(t)
  <2>1. PICK from \in {"begin", "restore", "loop", "render", "rendered", "delay",
                       "delayed", "dispose", "wrap", "leave"},
             to \in Place \ {"suspended", "done", "zero"} :
             ThreadAt(t, from, to) /\ UNCHANGED <<m_hThread, handle>>
    BY <1>1 DEF Begin, Restore, LoopTest, Render, TestRendered, Delay,
                TestDelayed, Dispose, Wrap, Leave, Place
  <2> QED BY <2>1, ThreadHandle
<1>2. CASE CloseOwn(t)
  <2>1. /\ pc[t] = "close" /\ pc' = [pc EXCEPT ![t] = "zero"]
        /\ handle' = Closed(m_hThread) /\ m_hThread' = m_hThread
        /\ gui' = gui /\ waits' = waits
    BY <1>2 DEF CloseOwn, ThreadAt
  <2>2. \A u \in Thread : pc'[u] # "done" => u = t
    BY <2>1 DEF HandleInv, HandleTypes, OneLive
  <2>3. \A u \in Thread : ~Busy(u)' /\ pc'[u] # "suspended"
    BY <2>1, <2>2 DEF HandleInv, HandleTypes, Busy, Animating
  <2>4. HandleTypes'
    BY <2>1 DEF HandleInv, HandleTypes, Place, Closed
  <2> QED BY <2>2, <2>3, <2>4 DEF HandleInv, OneLive, HandleHeld, WaitedFor
<1>3. CASE ZeroOwn(t)
  <2>1. /\ pc[t] = "zero" /\ pc' = [pc EXCEPT ![t] = "done"]
        /\ handle' = handle /\ m_hThread' = NULL
        /\ gui' = gui /\ waits' = waits
    BY <1>3 DEF ZeroOwn, ThreadAt
  <2>2. \A u \in Thread : pc'[u] = "done"
    BY <2>1 DEF HandleInv, HandleTypes, OneLive
  <2>3. HandleTypes'
    BY <2>1 DEF HandleInv, HandleTypes, Place
  <2> QED BY <2>2, <2>3
          DEF HandleInv, OneLive, HandleHeld, WaitedFor, Busy, Animating
<1> QED BY <1>1, <1>2, <1>3 DEF ThreadStep

(* A step of the window's thread that changes no thread and keeps the      *)
(* handles, or leaves when no thread needs one.                            *)
LEMMA GuiHandle ==
  ASSUME HandleInv, pc' = pc, gui # "resume",
         handle' \in [Handle -> Thread \cup {NoThread}],
         m_hThread' \in Handle \cup {NULL},
         waits' \in Thread \cup {NoThread},
         \/ \A t \in Thread : ~Busy(t)
         \/ /\ UNCHANGED <<m_hThread, handle>>
            /\ gui' \notin Quiet
            /\ gui' = "stopWaiting" => waits' = ThreadOf(m_hThread)
  PROVE  HandleInv'
<1>1. \A t \in Thread : Busy(t)' <=> Busy(t)
  BY DEF Busy, Animating
<1>2. \A t \in Thread : pc'[t] # "suspended"
  BY DEF HandleInv, WaitedFor
<1>3. HandleTypes'
  BY DEF HandleInv, HandleTypes
<1>4. OneLive'
  BY DEF HandleInv, OneLive
<1>5. HandleHeld'
  BY <1>1 DEF HandleInv, HandleHeld
<1>6. WaitedFor'
  BY <1>1, <1>2 DEF HandleInv, HandleHeld, WaitedFor, ThreadOf
<1> QED BY <1>3, <1>4, <1>5, <1>6 DEF HandleInv

(* While the application is cautious, Draw finds every thread gone. *)
LEMMA AllGone ==
  ASSUME Cautious, DrawAllowed
  PROVE  \A t \in Thread : pc[t] = "done" /\ ~Busy(t)
BY DEF Cautious, DrawAllowed, Busy, Animating

LEMMA GuiStepHandle ==
  ASSUME Cautious, HandleInv, GuiCall \/ GuiInside
  PROVE  HandleInv'
<1> USE DEF Gui, threads, vars, HandleTypes
<1>1. CASE CallStop \/ StopFlag \/ StopSignal
  <2>1. /\ UNCHANGED threads /\ waits' = waits /\ gui # "resume"
        /\ gui' \notin Quiet /\ gui' # "stopWaiting"
    BY <1>1 DEF CallStop, StopFlag, StopSignal, Quiet
  <2> QED BY <2>1, GuiHandle DEF HandleInv
<1>2. CASE StopTest
  <2>1. /\ UNCHANGED threads /\ waits' = waits /\ gui # "resume"
        /\ gui' # "stopWaiting"
        /\ m_hThread # NULL => gui' \notin Quiet
    BY <1>2 DEF StopTest, Quiet
  <2>2. m_hThread = NULL => \A t \in Thread : ~Busy(t)
    BY PictureAssumption DEF HandleInv, HandleHeld
  <2> QED BY <2>1, <2>2, GuiHandle DEF HandleInv
<1>3. CASE StopWait
  <2>1. /\ UNCHANGED threads /\ gui # "resume" /\ gui' \notin Quiet
        /\ waits' = ThreadOf(m_hThread)
    BY <1>3 DEF StopWait, Quiet
  <2>2. waits' \in Thread \cup {NoThread}
    BY <2>1 DEF HandleInv, ThreadOf
  <2> QED BY <2>1, <2>2, GuiHandle DEF HandleInv
<1>4. CASE StopWaited
  <2>1. /\ UNCHANGED threads /\ gui = "stopWaiting" /\ waits' = NoThread
        /\ waits \notin {t \in Thread : pc[t] # "done"}
    BY <1>4 DEF StopWaited, Cautious
  <2>2. \A t \in Thread : ~Busy(t)
    BY <2>1 DEF HandleInv, WaitedFor, Busy, Animating
  <2> QED BY <2>1, <2>2, GuiHandle DEF HandleInv
<1>5. CASE StopClose \/ StopNull \/ StopReset \/ StopClear \/ UnLoad \/ Load
  <2>1. gui \in Quiet /\ gui # "resume" /\ pc' = pc /\ waits' = waits
    BY <1>5 DEF StopClose, StopNull, StopReset, StopClear, UnLoad, Load, Quiet
  <2>2. \A t \in Thread : ~Busy(t)
    BY <2>1 DEF HandleInv, WaitedFor
  <2>3. handle' \in [Handle -> Thread \cup {NoThread}]
    BY <1>5 DEF StopClose, StopNull, StopReset, StopClear, UnLoad, Load,
                HandleInv, Closed
  <2>4. m_hThread' \in Handle \cup {NULL}
    BY <1>5 DEF StopClose, StopNull, StopReset, StopClear, UnLoad, Load, HandleInv
  <2> QED BY <2>1, <2>2, <2>3, <2>4, GuiHandle DEF HandleInv
<1>6. CASE DrawFails
  <2>1. /\ gui # "resume" /\ pc' = pc /\ handle' = handle /\ waits' = waits
        /\ m_hThread' = NULL
    BY <1>6 DEF DrawFails
  <2>2. \A t \in Thread : ~Busy(t)
    BY <1>6, AllGone DEF DrawFails
  <2> QED BY <2>1, <2>2, GuiHandle DEF HandleInv
<1>7. CASE Draw
  <2>1. \A t \in Thread : pc[t] = "done" /\ ~Busy(t)
    BY <1>7, AllGone DEF Draw
  <2>2. PICK t \in Thread, h \in Handle :
          /\ pc' = [pc EXCEPT ![t] = "suspended"]
          /\ handle' = [handle EXCEPT ![h] = t]
          /\ m_hThread' = h
    BY <1>7 DEF Draw
  <2>3. gui' = "resume" /\ waits' = waits
    BY <1>7 DEF Draw
  <2>4. pc'[t] = "suspended" /\ \A u \in Thread : u # t => pc'[u] = "done"
    BY <2>1, <2>2 DEF HandleInv
  <2>5. HandleTypes'
    BY <2>2, <2>3 DEF HandleInv, Place
  <2>6. OneLive'
    BY <2>4 DEF OneLive
  <2>7. \A u \in Thread : Busy(u)' => u = t
    BY <2>4 DEF Busy, Animating
  <2>8. HandleHeld'
    BY <2>2, <2>7 DEF HandleInv, HandleHeld
  <2>9. WaitedFor'
    BY <2>3 DEF WaitedFor, Quiet
  <2> QED BY <2>5, <2>6, <2>8, <2>9 DEF HandleInv
<1>8. CASE Resume
  <2>1. /\ gui' = "idle" /\ gui = "resume" /\ waits' = waits
        /\ m_hThread' = m_hThread /\ handle' = handle
    BY <1>8 DEF Resume
  <2> DEFINE t == ThreadOf(m_hThread)
  <2>2. CASE t \in Thread /\ pc[t] = "suspended"
    <3>1. pc' = [pc EXCEPT ![t] = "begin"]
      BY <1>8, <2>2 DEF Resume
    <3>2. \A u \in Thread : pc[u] # "done" => u = t
      BY <2>2 DEF HandleInv, OneLive
    <3>3. \A u \in Thread : /\ pc'[u] # "done" => u = t
                            /\ pc'[u] # "suspended"
      BY <2>2, <3>1, <3>2 DEF HandleInv
    <3>4. Busy(t)
      BY <2>2 DEF Busy
    <3>5. HandleTypes'
      BY <2>1, <3>1 DEF HandleInv, Place
    <3>6. OneLive'
      BY <3>3 DEF OneLive
    <3>7. \A u \in Thread : Busy(u)' => u = t
      BY <3>3 DEF Busy, Animating
    <3>8. HandleHeld'
      BY <2>1, <2>2, <3>4, <3>7 DEF HandleInv, HandleHeld
    <3>9. WaitedFor'
      BY <2>1, <3>3 DEF WaitedFor, Quiet
    <3> QED BY <3>5, <3>6, <3>8, <3>9 DEF HandleInv
  <2>3. CASE ~(t \in Thread /\ pc[t] = "suspended")
    <3>1. pc' = pc
      BY <1>8, <2>3 DEF Resume
    <3>2. \A u \in Thread : pc[u] # "suspended"
      BY <2>3 DEF HandleInv, HandleHeld, Busy, ThreadOf
    <3>3. \A u \in Thread : Busy(u)' <=> Busy(u)
      BY <3>1 DEF Busy, Animating
    <3>4. HandleTypes' /\ OneLive'
      BY <2>1, <3>1 DEF HandleInv, OneLive
    <3>5. HandleHeld'
      BY <2>1, <3>3 DEF HandleInv, HandleHeld
    <3>6. WaitedFor'
      BY <2>1, <3>1, <3>2 DEF WaitedFor, Quiet
    <3> QED BY <3>4, <3>5, <3>6 DEF HandleInv
  <2> QED BY <2>2, <2>3
<1> QED BY <1>1, <1>2, <1>3, <1>4, <1>5, <1>6, <1>7, <1>8 DEF GuiCall, GuiInside

LEMMA NextHandle ==
  ASSUME Cautious, HandleInv, [Next]_vars
  PROVE  HandleInv'
<1>1. CASE UNCHANGED vars
  BY <1>1 DEF HandleInv, HandleTypes, OneLive, HandleHeld, WaitedFor, Busy,
              Animating, vars, threads
<1>2. CASE Next
  BY <1>2, ThreadStepHandle, GuiStepHandle DEF Next
<1> QED BY <1>1, <1>2

(* In every state the handle is that of the one thread there is. *)
LEMMA HandleInvariant == ASSUME Cautious PROVE Spec => []HandleInv
<1>1. Init => HandleInv
  BY InitHandle
<1>2. HandleInv /\ [Next]_vars => HandleInv'
  BY NextHandle
<1> QED BY <1>1, <1>2, PTL DEF Spec

(* A null thread handle, between calls, means that no thread animates:     *)
(* Stop and Draw may rely on m_hThread (PictureEx.cpp lines 959, 795).     *)
THEOREM NullHandleQuiet == ASSUME Cautious PROVE Spec => []NullHandleMeansQuiet
<1>1. HandleInv => NullHandleMeansQuiet
  BY PictureAssumption
     DEF HandleInv, HandleHeld, Busy, NullHandleMeansQuiet
<1> QED BY <1>1, HandleInvariant, PTL

(* The request to exit is withdrawn only when every thread has left its    *)
(* loop: Stop resets m_bExitThread (line 969) after its wait.              *)
THEOREM ExitHeld == ASSUME Cautious PROVE Spec => ExitRequestHeld
<1>1. ASSUME HandleInv, [Next]_vars
      PROVE  [m_bExitThread /\ ~m_bExitThread' => \A t \in Thread : ~Animating(t)]_vars
  <2>1. CASE StopClear \/ UnLoad
    BY <1>1, <2>1 DEF StopClear, UnLoad, Gui, HandleInv, WaitedFor, Quiet, Busy
  <2>2. CASE StopFlag
    BY <2>2 DEF StopFlag
  <2>3. ASSUME Next, ~(StopClear \/ UnLoad \/ StopFlag)
        PROVE  m_bExitThread' = m_bExitThread
    <3>1. ASSUME NEW t \in Thread, ThreadStep(t)
          PROVE  m_bExitThread' = m_bExitThread
      BY <3>1 DEF ThreadStep, Begin, Restore, LoopTest, Render, TestRendered,
                  Delay, TestDelayed, Dispose, Wrap, Leave, CloseOwn, ZeroOwn, flags
    <3>2. CASE GuiCall
      BY <3>2 DEF GuiCall, CallStop, Draw, DrawFails, flags
    <3>3. CASE GuiInside
      BY <3>3, <2>3 DEF GuiInside, StopSignal, StopTest, StopWait, StopWaited,
                        StopClose, StopNull, StopReset, Load, Resume, flags
    <3> QED BY <2>3, <3>1, <3>2, <3>3 DEF Next
  <2> QED BY <1>1, <2>1, <2>2, <2>3
<1> QED BY <1>1, HandleInvariant, PTL DEF Spec, ExitRequestHeld

-----------------------------------------------------------------------------
(* Which frame is shown. *)

Shown ==
  /\ (\A t \in Thread : pc[t] # "wrap")
       => m_nCurrFrame \in {lastShown, Following(lastShown)}
  /\ \A t \in Thread : pc[t] = "wrap" => m_nCurrFrame = lastShown + 1
  /\ \A t \in Thread : pc[t] \in {"rendered", "delay", "delayed", "dispose"}
                         => m_nCurrFrame = lastShown

(* The background held is that of the current frame. *)
Background ==
  /\ m_hDispMemDC => m_nCurrFrame < Len(m_arrFrames) /\ DisposalNow = 3
  /\ \A t \in Thread : pc[t] \in {"loop", "render", "wrap"} => ~m_hDispMemDC

FrameInv ==
  /\ m_arrFrames \in Picture
  /\ m_nCurrFrame \in Nat
  /\ m_hDispMemDC \in BOOLEAN
  /\ lastShown \in -1..(Len(m_arrFrames) - 1)
  /\ \A t \in Thread : Busy(t) => Len(m_arrFrames) > 1
  /\ gui = "load" => lastShown = -1 /\ ~m_hDispMemDC
  /\ Shown
  /\ Background

LEMMA PictureLen ==
  ASSUME NEW s \in Picture
  PROVE  Len(s) \in 0..MaxFrames
<1>1. PICK n \in 0..MaxFrames : s \in [1..n -> Disposal]
  BY DEF Picture
<1>2. n \in Nat /\ MaxFrames \in Nat
  BY PictureAssumption
<1>3. s \in Seq(Disposal) /\ DOMAIN s = 1..n
  BY <1>1, <1>2
<1>4. Len(s) = n
  BY <1>2, <1>3
<1> QED BY <1>1, <1>4

LEMMA InitFrame == Init => FrameInv
<1> SUFFICES ASSUME Init PROVE FrameInv
  OBVIOUS
<1>1. m_arrFrames = <<>> /\ Len(m_arrFrames) = 0
  BY DEF Init
<1>2. m_arrFrames \in Picture
  <2>1. 0 \in 0..MaxFrames
    BY PictureAssumption
  <2>2. <<>> \in [1..0 -> Disposal]
    OBVIOUS
  <2> QED BY <1>1, <2>1, <2>2 DEF Picture
<1>3. /\ m_nCurrFrame = 0 /\ lastShown = -1 /\ m_hDispMemDC = FALSE
      /\ gui = "idle"
      /\ \A t \in Thread : pc[t] = "done"
  BY DEF Init
<1>4. Shown
  BY <1>1, <1>3 DEF Shown, Following
<1>5. Background
  BY <1>3 DEF Background
<1>6. lastShown \in -1..(Len(m_arrFrames) - 1)
  BY <1>1, <1>3
<1>7. \A t \in Thread : ~Busy(t)
  BY <1>3 DEF Busy, Animating
<1> QED BY <1>2, <1>3, <1>4, <1>5, <1>6, <1>7 DEF FrameInv

(* What a step of a thread finds and leaves: the other threads are gone,   *)
(* and a thread with frames to show is in no place where Stop or Load      *)
(* count on its absence.                                                   *)
LEMMA ThreadContext ==
  ASSUME HandleInv, NEW t \in Thread, NEW from, NEW to,
         ThreadAt(t, from, to), from # "done"
  PROVE  /\ pc[t] = from /\ pc'[t] = to
         /\ \A u \in Thread : u # t => pc[u] = "done" /\ pc'[u] = "done"
         /\ UNCHANGED picture /\ gui' = gui
         /\ Busy(t) => gui # "load"
BY DEF HandleInv, HandleTypes, OneLive, WaitedFor, Quiet, ThreadAt

(* Steps that touch no frame. *)
LEMMA ThreadAway ==
  ASSUME HandleInv, FrameInv, NEW t \in Thread,
         \/ Begin(t) \/ LoopTest(t) \/ TestRendered(t) \/ Delay(t)
         \/ TestDelayed(t) \/ Leave(t) \/ CloseOwn(t) \/ ZeroOwn(t)
  PROVE  FrameInv'
<1>1. PICK from, to :
        /\ ThreadAt(t, from, to) /\ from # "done"
        /\ UNCHANGED frame
        /\ from # "wrap" /\ to # "wrap"
        /\ to \in {"loop", "render"} => from = "loop"
        /\ to \in {"rendered", "delay", "delayed", "dispose"}
             => from \in {"rendered", "delay", "delayed"}
        /\ to \notin {"zero", "done"} => from \notin {"zero", "close", "done"}
        /\ from \in Place /\ from # "suspended" /\ to # "suspended"
  BY DEF Begin, LoopTest, TestRendered, Delay, TestDelayed, Leave, CloseOwn,
         ZeroOwn, Place
<1>2. /\ pc[t] = from /\ pc'[t] = to
      /\ \A u \in Thread : u # t => pc[u] = "done" /\ pc'[u] = "done"
      /\ UNCHANGED picture /\ gui' = gui
  BY <1>1, ThreadContext
<1>3. /\ m_arrFrames' = m_arrFrames /\ m_nCurrFrame' = m_nCurrFrame
      /\ m_hDispMemDC' = m_hDispMemDC /\ lastShown' = lastShown
  BY <1>1, <1>2 DEF picture, frame
<1>4. \A u \in Thread : Busy(u)' => Busy(u)
  BY <1>1, <1>2 DEF Busy, Animating, Place
<1>5. Shown'
  BY <1>1, <1>2, <1>3 DEF FrameInv, Shown, Following
<1>6. Background'
  BY <1>1, <1>2, <1>3 DEF FrameInv, Background, DisposalNow
<1> QED BY <1>2, <1>3, <1>4, <1>5, <1>6 DEF FrameInv

LEMMA ThreadFrame ==
  ASSUME HandleInv, FrameInv, NEW t \in Thread,
         Restore(t) \/ Render(t) \/ Dispose(t) \/ Wrap(t)
  PROVE  FrameInv'
<1> DEFINE n == Len(m_arrFrames)
<1>1. PICK from, to :
        /\ ThreadAt(t, from, to)
        /\ <<from, to>> \in {<<"restore", "loop">>, <<"render", "rendered">>,
                              <<"dispose", "wrap">>, <<"wrap", "loop">>}
  BY DEF Restore, Render, Dispose, Wrap
<1>2. /\ pc[t] = from /\ pc'[t] = to
      /\ \A u \in Thread : u # t => pc[u] = "done" /\ pc'[u] = "done"
      /\ UNCHANGED picture /\ gui' = gui
      /\ Busy(t) => gui # "load"
  BY <1>1, ThreadContext
<1>3. Busy(t) /\ gui' # "load" /\ m_arrFrames' = m_arrFrames
  BY <1>1, <1>2 DEF Busy, Animating, picture
<1>4. n \in Nat /\ n > 1
  BY <1>3, PictureLen, PictureAssumption DEF FrameInv
<1>5. lastShown \in -1..(n - 1)
  BY DEF FrameInv
<1>6. CASE Restore(t) \/ Dispose(t)
  <2>1. /\ m_hDispMemDC' = (m_hDispMemDC /\ DisposalNow # 3)
        /\ lastShown' = lastShown
    BY <1>6 DEF Restore, Dispose, PutBack
  <2>2. m_hDispMemDC' = FALSE
    BY <2>1 DEF FrameInv, Background
  <2>3. Background'
    BY <2>2 DEF Background
  <2>4. m_nCurrFrame' \in Nat /\ Shown'
    <3>1. CASE Restore(t)
      <4>1. pc[t] = "restore" /\ pc'[t] = "loop" /\ m_nCurrFrame' = m_nCurrFrame
        BY <1>2, <3>1 DEF Restore, ThreadAt, HandleInv, HandleTypes
      <4>2. \A u \in Thread : pc[u] # "wrap"
        BY <1>2, <4>1
      <4> QED BY <1>2, <1>3, <2>1, <4>1, <4>2 DEF FrameInv, Shown, Following
    <3>2. CASE Dispose(t)
      <4>1. pc[t] = "dispose" /\ pc'[t] = "wrap"
            /\ m_nCurrFrame' = m_nCurrFrame + 1
        BY <1>2, <3>2 DEF Dispose, ThreadAt, HandleInv, HandleTypes
      <4>2. m_nCurrFrame = lastShown
        BY <4>1 DEF FrameInv, Shown
      <4> QED BY <1>2, <2>1, <4>1, <4>2 DEF FrameInv, Shown
    <3> QED BY <1>6, <3>1, <3>2
  <2> QED BY <1>3, <1>4, <1>5, <2>1, <2>2, <2>3, <2>4 DEF FrameInv
<1>7. CASE Render(t)
  <2>1. /\ pc[t] = "render" /\ pc'[t] = "rendered"
        /\ m_nCurrFrame < n
        /\ lastShown' = m_nCurrFrame /\ m_nCurrFrame' = m_nCurrFrame
    BY <1>2, <1>7 DEF Render, ThreadAt, HandleInv, HandleTypes, FrameReadable
  <2>2. m_hDispMemDC = FALSE
    BY <2>1 DEF FrameInv, Background
  <2>3. m_hDispMemDC' \in BOOLEAN /\ (m_hDispMemDC' => DisposalNow = 3)
    <3>1. CASE DisposalNow = 3
      BY <1>7, <3>1 DEF Render
    <3>2. CASE DisposalNow # 3
      BY <1>7, <2>2, <3>2 DEF Render
    <3> QED BY <3>1, <3>2
  <2>4. Background'
    BY <1>2, <1>3, <2>1, <2>3 DEF Background, DisposalNow
  <2>5. Shown'
    BY <1>2, <2>1 DEF Shown
  <2>6. lastShown' \in -1..(n - 1)
    BY <1>4, <2>1 DEF FrameInv
  <2> QED BY <1>3, <1>4, <2>1, <2>3, <2>4, <2>5, <2>6 DEF FrameInv
<1>8. CASE Wrap(t)
  <2>1. /\ pc[t] = "wrap" /\ pc'[t] = "loop"
        /\ m_nCurrFrame' = IF m_nCurrFrame = n THEN 0 ELSE m_nCurrFrame
        /\ lastShown' = lastShown /\ m_hDispMemDC' = m_hDispMemDC
    BY <1>2, <1>8 DEF Wrap, ThreadAt, HandleInv, HandleTypes
  <2>2. m_nCurrFrame = lastShown + 1 /\ ~m_hDispMemDC
    BY <2>1 DEF FrameInv, Shown, Background
  <2>3. Background'
    BY <2>1, <2>2 DEF Background
  <2>4. m_nCurrFrame' = Following(lastShown)
    BY <2>1, <2>2 DEF Following
  <2>5. Shown'
    BY <1>2, <1>3, <2>1, <2>4 DEF Shown, Following
  <2> QED BY <1>3, <1>4, <1>5, <2>1, <2>2, <2>3, <2>5 DEF FrameInv
<1> QED BY <1>6, <1>7, <1>8

(* The steps of the window's thread: only UnLoad and Load touch frames,    *)
(* when no thread is busy; the others may start or resume a thread.        *)
LEMMA GuiFrame ==
  ASSUME Cautious, HandleInv, FrameInv, GuiCall \/ GuiInside
  PROVE  FrameInv'
<1>1. CASE Load
  <2>1. /\ gui = "load" /\ gui' = "idle" /\ pc' = pc /\ UNCHANGED frame
        /\ m_arrFrames' \in Picture \cup {<<>>}
    BY <1>1 DEF Load, Gui, threads
  <2>2. m_arrFrames' \in Picture
    <3>1. <<>> \in [1..0 -> Disposal] /\ 0 \in 0..MaxFrames
      BY PictureAssumption
    <3> QED BY <2>1, <3>1 DEF Picture
  <2>3. \A t \in Thread : ~Busy(t)
    BY <2>1 DEF HandleInv, WaitedFor, Quiet
  <2>4. \A t \in Thread : ~Busy(t)' /\ pc'[t] = pc[t]
                         /\ pc[t] \notin {"wrap", "rendered", "delay", "delayed",
                                          "dispose", "loop", "render"}
    BY <2>1, <2>3 DEF Busy, Animating
  <2>5. Len(m_arrFrames') \in Nat
    BY <2>2, PictureLen, PictureAssumption
  <2>6. /\ lastShown' = -1 /\ lastShown = -1
        /\ m_hDispMemDC' = FALSE /\ m_nCurrFrame' = m_nCurrFrame
    BY <2>1 DEF FrameInv, frame
  <2>7. m_nCurrFrame = 0
    BY <2>4, <2>6 DEF FrameInv, Shown, Following
  <2>8. Shown'
    BY <2>4, <2>6, <2>7 DEF Shown, Following
  <2>9. Background'
    BY <2>4, <2>6 DEF Background
  <2>10. lastShown' \in -1..(Len(m_arrFrames') - 1)
    BY <2>5, <2>6
  <2> QED BY <2>1, <2>2, <2>4, <2>6, <2>7, <2>8, <2>9, <2>10 DEF FrameInv
<1>2. CASE UnLoad
  <2>1. /\ gui = "unload" /\ pc' = pc /\ m_arrFrames' = <<>>
        /\ m_nCurrFrame' = 0 /\ m_hDispMemDC' = FALSE /\ lastShown' = -1
    BY <1>2 DEF UnLoad, Gui
  <2>2. m_arrFrames' \in Picture /\ Len(m_arrFrames') = 0
    <3>1. <<>> \in [1..0 -> Disposal] /\ 0 \in 0..MaxFrames
      BY PictureAssumption
    <3> QED BY <2>1, <3>1 DEF Picture
  <2>3. \A t \in Thread : ~Busy(t)
    BY <2>1 DEF HandleInv, WaitedFor, Quiet
  <2>4. \A t \in Thread : ~Busy(t)' /\ pc'[t] = pc[t]
                         /\ pc[t] \notin {"wrap", "rendered", "delay", "delayed",
                                          "dispose", "loop", "render"}
    BY <2>1, <2>3 DEF Busy, Animating
  <2>5. Shown'
    BY <2>1, <2>2, <2>4 DEF Shown, Following
  <2>6. Background'
    BY <2>1, <2>4 DEF Background
  <2>7. lastShown' \in -1..(Len(m_arrFrames') - 1)
    BY <2>1, <2>2
  <2> QED BY <2>1, <2>2, <2>4, <2>5, <2>6, <2>7 DEF FrameInv
<1>3. ASSUME UNCHANGED <<picture, frame>>, gui' # "load",
             \A t \in Thread : Busy(t)' => Busy(t) \/ Len(m_arrFrames) > 1,
             \A t \in Thread : \/ pc'[t] = pc[t]
                               \/ /\ pc'[t] \in {"suspended", "begin"}
                                  /\ pc[t] \in {"suspended", "done"}
      PROVE  FrameInv'
  <2>1. /\ m_arrFrames' = m_arrFrames /\ m_nCurrFrame' = m_nCurrFrame
        /\ m_hDispMemDC' = m_hDispMemDC /\ lastShown' = lastShown
    BY <1>3 DEF picture, frame
  <2>2. Shown'
    BY <1>3, <2>1 DEF FrameInv, Shown, Following
  <2>3. Background'
    BY <1>3, <2>1 DEF FrameInv, Background, DisposalNow
  <2> QED BY <1>3, <2>1, <2>2, <2>3 DEF FrameInv
<1>4. CASE \/ CallStop \/ StopFlag \/ StopSignal \/ StopTest \/ StopWait
           \/ StopWaited \/ StopClose \/ StopNull \/ StopReset \/ StopClear
           \/ DrawFails
  <2>1. UNCHANGED <<picture, frame>> /\ gui' # "load" /\ pc' = pc
    BY <1>4 DEF CallStop, StopFlag, StopSignal, StopTest, StopWait, StopWaited,
                StopClose, StopNull, StopReset, StopClear, DrawFails, Gui, threads
  <2> QED BY <1>3, <2>1 DEF Busy, Animating
<1>5. CASE Draw
  <2>1. /\ UNCHANGED <<picture, frame>> /\ gui' # "load"
        /\ Len(m_arrFrames) > 1
    BY <1>5 DEF Draw, Gui, IsAnimatedGIF
  <2>2. \A t \in Thread : \/ pc'[t] = pc[t]
                          \/ pc'[t] = "suspended" /\ pc[t] = "done"
    BY <1>5 DEF Draw, HandleInv, HandleTypes
  <2> QED BY <1>3, <2>1, <2>2
<1>6. CASE Resume
  <2>1. UNCHANGED <<picture, frame>> /\ gui' # "load"
    BY <1>6 DEF Resume, Gui
  <2>2. \A t \in Thread : \/ pc'[t] = pc[t]
                          \/ pc'[t] = "begin" /\ pc[t] = "suspended"
    BY <1>6 DEF Resume, HandleInv, HandleTypes
  <2>3. \A t \in Thread : Busy(t)' => Busy(t)
    BY <2>2 DEF Busy, Animating
  <2> QED BY <1>3, <2>1, <2>2, <2>3
<1> QED BY <1>1, <1>2, <1>4, <1>5, <1>6 DEF GuiCall, GuiInside

LEMMA NextFrame ==
  ASSUME Cautious, HandleInv, FrameInv, [Next]_vars
  PROVE  FrameInv'
<1>1. CASE UNCHANGED vars
  <2>1. /\ m_arrFrames' = m_arrFrames /\ m_nCurrFrame' = m_nCurrFrame
        /\ m_hDispMemDC' = m_hDispMemDC /\ lastShown' = lastShown
        /\ pc' = pc /\ gui' = gui
    BY <1>1 DEF vars, picture, frame, threads
  <2> QED BY <2>1 DEF FrameInv, Shown, Background, Following, DisposalNow, Busy,
                      Animating
<1>2. CASE Next
  BY <1>2, ThreadAway, ThreadFrame, GuiFrame DEF Next, ThreadStep
<1> QED BY <1>1, <1>2

LEMMA FrameInvariant == ASSUME Cautious PROVE Spec => []FrameInv
<1>1. Init => FrameInv
  BY InitFrame
<1>2. HandleInv /\ FrameInv /\ [Next]_vars => FrameInv'
  BY NextFrame
<1> QED BY <1>1, <1>2, HandleInvariant, PTL DEF Spec

(* The frame a thread is about to read is in the vector: UnLoad and Load   *)
(* never change m_arrFrames under an animation.                            *)
THEOREM FramesValid == ASSUME Cautious PROVE Spec => []FrameAccessValid
<1>1. HandleInv /\ FrameInv => FrameAccessValid
  <2> SUFFICES ASSUME HandleInv, FrameInv, NEW t \in Thread, ReadsFrame(t)
               PROVE  FrameReadable
    BY DEF FrameAccessValid
  <2>1. Busy(t) /\ pc[t] # "wrap" /\ pc[t] # "done"
    BY DEF ReadsFrame, Busy, Animating
  <2>2. \A u \in Thread : pc[u] # "wrap"
    BY <2>1 DEF HandleInv, OneLive
  <2>3. m_nCurrFrame \in {lastShown, Following(lastShown)}
    BY <2>2 DEF FrameInv, Shown
  <2>4. Len(m_arrFrames) \in Nat /\ Len(m_arrFrames) > 1
    BY <2>1, PictureLen, PictureAssumption DEF FrameInv
  <2> QED BY <2>3, <2>4 DEF FrameInv, Following, FrameReadable
<1> QED BY <1>1, HandleInvariant, FrameInvariant, PTL

(* The DC that holds a saved background is free whenever a frame is about  *)
(* to save one.                                                            *)
THEOREM NoLeak == ASSUME Cautious PROVE Spec => []NoBackgroundLeak
<1>1. FrameInv => NoBackgroundLeak
  BY DEF FrameInv, Background, NoBackgroundLeak
<1> QED BY <1>1, FrameInvariant, PTL

(* Each frame is followed by the next, across any number of Stop and Draw. *)
THEOREM InOrder == ASSUME Cautious PROVE Spec => FramesInOrder
<1>1. ASSUME HandleInv, FrameInv, [Next]_vars
      PROVE  [lastShown' \in {lastShown, -1, Following(lastShown)}]_vars
  <2>1. ASSUME NEW t \in Thread, Render(t)
        PROVE  lastShown' \in {lastShown, Following(lastShown)}
    <3>1. pc[t] = "render" /\ lastShown' = m_nCurrFrame
      BY <2>1 DEF Render, ThreadAt
    <3>2. \A u \in Thread : pc[u] # "wrap"
      BY <1>1, <3>1 DEF HandleInv, OneLive
    <3> QED BY <1>1, <3>1, <3>2 DEF FrameInv, Shown
  <2>2. ASSUME NEW t \in Thread, ThreadStep(t), ~Render(t)
        PROVE  lastShown' = lastShown
    BY <2>2 DEF ThreadStep, Begin, Restore, LoopTest, TestRendered, Delay,
                TestDelayed, Dispose, Wrap, Leave, CloseOwn, ZeroOwn, frame
  <2>3. CASE UnLoad
    BY <2>3 DEF UnLoad
  <2>4. ASSUME GuiCall \/ GuiInside, ~UnLoad
        PROVE  lastShown' = lastShown
    BY <2>4 DEF GuiCall, GuiInside, CallStop, StopFlag, StopSignal, StopTest,
                StopWait, StopWaited, StopClose, StopNull, StopReset, StopClear,
                Load, Draw, DrawFails, Resume, frame
  <2> QED BY <1>1, <2>1, <2>2, <2>3, <2>4 DEF Next
<1> QED BY <1>1, HandleInvariant, FrameInvariant, PTL DEF Spec, FramesInOrder

-----------------------------------------------------------------------------
(* What IsPlaying answers. *)

(* A thread that has set m_bIsPlaying and has not left its loop. *)
Plays(t) == Animating(t) /\ pc[t] # "begin"

PlayInv ==
  /\ m_bIsPlaying \in BOOLEAN
  /\ m_bIsPlaying => \E t \in Thread : Plays(t)
  /\ gui \in {"idle", "resume"} => \A t \in Thread : Plays(t) => m_bIsPlaying

LEMMA ThreadPlay ==
  ASSUME HandleInv, PlayInv, NEW t \in Thread, ThreadStep(t)
  PROVE  PlayInv'
<1>1. gui' = gui
  BY DEF ThreadStep, Begin, Restore, LoopTest, Render, TestRendered, Delay,
         TestDelayed, Dispose, Wrap, Leave, CloseOwn, ZeroOwn, ThreadAt
<1>2. \A u \in Thread : u # t => ~Plays(u) /\ ~Plays(u)'
  <2>1. pc[t] # "done" /\ \A u \in Thread : u # t => pc'[u] = pc[u]
    BY DEF ThreadStep, Begin, Restore, LoopTest, Render, TestRendered, Delay,
           TestDelayed, Dispose, Wrap, Leave, CloseOwn, ZeroOwn, ThreadAt,
           HandleInv, HandleTypes
  <2> QED BY <2>1 DEF HandleInv, OneLive, Plays, Animating
<1>3. CASE Begin(t)
  <2>1. m_bIsPlaying' = TRUE /\ pc'[t] = "restore"
    BY <1>3 DEF Begin, ThreadAt, HandleInv, HandleTypes
  <2> QED BY <1>2, <2>1 DEF PlayInv, Plays, Animating
<1>4. CASE Leave(t)
  <2>1. m_bIsPlaying' = FALSE /\ pc'[t] = "close"
    BY <1>4 DEF Leave, ThreadAt, HandleInv, HandleTypes
  <2> QED BY <1>2, <2>1 DEF PlayInv, Plays, Animating
<1>5. CASE ~Begin(t) /\ ~Leave(t)
  <2>1. m_bIsPlaying' = m_bIsPlaying
    BY <1>5 DEF ThreadStep, Restore, LoopTest, Render, TestRendered, Delay,
                TestDelayed, Dispose, Wrap, CloseOwn, ZeroOwn, flags
  <2>2. Plays(t)' <=> Plays(t)
    BY <1>5 DEF ThreadStep, Restore, LoopTest, Render, TestRendered, Delay,
                TestDelayed, Dispose, Wrap, CloseOwn, ZeroOwn, ThreadAt,
                HandleInv, HandleTypes, Plays, Animating
  <2>3. \A u \in Thread : Plays(u)' <=> Plays(u)
    BY <1>2, <2>2
  <2> QED BY <1>1, <2>1, <2>3 DEF PlayInv
<1> QED BY <1>3, <1>4, <1>5

LEMMA GuiPlay ==
  ASSUME Cautious, HandleInv, PlayInv, GuiCall \/ GuiInside
  PROVE  PlayInv'
<1>1. \A t \in Thread : Plays(t)' <=> Plays(t)
  <2>1. CASE Draw \/ Resume
    <3>1. \A t \in Thread : \/ pc'[t] = pc[t]
                           \/ /\ pc'[t] \in {"suspended", "begin"}
                              /\ pc[t] \in {"suspended", "done"}
      BY <2>1 DEF Draw, Resume, HandleInv, HandleTypes
    <3> QED BY <3>1 DEF Plays, Animating
  <2>2. CASE ~(Draw \/ Resume)
    <3>1. pc' = pc
      BY <2>2 DEF GuiCall, GuiInside, CallStop, StopFlag, StopSignal, StopTest,
                  StopWait, StopWaited, StopClose, StopNull, StopReset,
                  StopClear, UnLoad, Load, DrawFails, threads
    <3> QED BY <3>1 DEF Plays, Animating
  <2> QED BY <2>1, <2>2
<1>2. CASE CallStop
  <2>1. m_bIsPlaying' = FALSE /\ gui' = "stopFlag"
    BY <1>2 DEF CallStop, Gui
  <2> QED BY <2>1 DEF PlayInv
<1>3. CASE ~CallStop
  <2>1. m_bIsPlaying' = m_bIsPlaying
    BY <1>3 DEF GuiCall, GuiInside, StopFlag, StopSignal, StopTest,
                StopWait, StopWaited, StopClose, StopNull, StopReset,
                StopClear, UnLoad, Load, Draw, DrawFails, Resume, flags
  <2>2. gui' \in {"idle", "resume"}
          => gui \in {"idle", "resume", "stopClear", "unload", "load"}
    BY <1>3 DEF GuiCall, GuiInside, Gui, StopFlag, StopSignal, StopTest,
                StopWait, StopWaited, StopClose, StopNull, StopReset,
                StopClear, UnLoad, Load, Draw, DrawFails, Resume
  <2>3. gui \in {"stopClear", "unload", "load"} => \A t \in Thread : ~Plays(t)
    BY DEF HandleInv, WaitedFor, Quiet, Busy, Plays
  <2> QED BY <1>1, <2>1, <2>2, <2>3 DEF PlayInv
<1> QED BY <1>2, <1>3

LEMMA NextPlay ==
  ASSUME Cautious, HandleInv, PlayInv, [Next]_vars
  PROVE  PlayInv'
<1>1. CASE UNCHANGED vars
  BY <1>1 DEF PlayInv, Plays, Animating, vars, flags, threads
<1>2. CASE Next
  BY <1>2, ThreadPlay, GuiPlay DEF Next
<1> QED BY <1>1, <1>2

(* Between calls IsPlaying() tells whether a thread animates, although     *)
(* Stop clears the flag first and the thread may set it after that.        *)
THEOREM PlayingAccurate == ASSUME Cautious PROVE Spec => []IsPlayingAccurate
<1>1. Init => PlayInv
  BY DEF Init, PlayInv, Plays, Animating
<1>2. HandleInv /\ PlayInv /\ [Next]_vars => PlayInv'
  BY NextPlay
<1>3. PlayInv => IsPlayingAccurate
  BY DEF PlayInv, Plays, IsPlayingAccurate
<1> QED BY <1>1, <1>2, <1>3, HandleInvariant, PTL DEF Spec

-----------------------------------------------------------------------------
(* The types of what is left. *)

FlagTypes == /\ m_bIsInitialized \in BOOLEAN /\ m_bIsGIF \in BOOLEAN
             /\ m_bExitThread \in BOOLEAN /\ m_hExitEvent \in BOOLEAN

LEMMA NextFlagTypes ==
  ASSUME FlagTypes, [Next]_vars
  PROVE  FlagTypes'
<1>1. ASSUME NEW t \in Thread, ThreadStep(t)
      PROVE  FlagTypes'
  BY <1>1 DEF ThreadStep, Begin, Restore, LoopTest, Render, TestRendered, Delay,
              TestDelayed, Dispose, Wrap, Leave, CloseOwn, ZeroOwn, ThreadAt,
              FlagTypes, flags, picture
<1>2. CASE GuiCall
  BY <1>2 DEF GuiCall, CallStop, Draw, DrawFails, FlagTypes, flags, picture
<1>3. CASE UnLoad
  <2>1. /\ m_bIsInitialized' = FALSE /\ m_bIsGIF' = FALSE
        /\ m_bExitThread' = FALSE /\ m_hExitEvent' = m_hExitEvent
    BY <1>3 DEF UnLoad
  <2> QED BY <2>1 DEF FlagTypes
<1>4. CASE GuiInside /\ ~UnLoad
  BY <1>4 DEF GuiInside, StopFlag, StopSignal, StopTest, StopWait, StopWaited,
              StopClose, StopNull, StopReset, StopClear, Load, Resume,
              FlagTypes, flags, picture
<1>5. CASE UNCHANGED vars
  BY <1>5 DEF vars, FlagTypes, flags, picture
<1> QED BY <1>1, <1>2, <1>3, <1>4, <1>5 DEF Next

(* The fields keep their types, and m_nCurrFrame is an index of            *)
(* m_arrFrames or, before the test of line 938, its size.                  *)
THEOREM TypeCorrect == ASSUME Cautious PROVE Spec => []TypeOK
<1>1. Init => FlagTypes
  BY DEF Init, FlagTypes
<1>2. FlagTypes /\ [Next]_vars => FlagTypes'
  BY NextFlagTypes
<1>3. Init => PlayInv
  BY DEF Init, PlayInv, Plays, Animating
<1>4. HandleInv /\ PlayInv /\ [Next]_vars => PlayInv'
  BY NextPlay
<1>5. HandleInv /\ FrameInv /\ PlayInv /\ FlagTypes => TypeOK
  <2> SUFFICES ASSUME HandleInv, FrameInv, PlayInv, FlagTypes PROVE TypeOK
    OBVIOUS
  <2>1. Len(m_arrFrames) \in 0..MaxFrames /\ MaxFrames \in Nat
    BY PictureLen, PictureAssumption DEF FrameInv
  <2>2. lastShown \in -1..(MaxFrames - 1)
    BY <2>1 DEF FrameInv
  <2>3. m_nCurrFrame \in 0..Len(m_arrFrames)
    <3>1. CASE \E t \in Thread : pc[t] = "wrap"
      BY <2>1, <3>1 DEF FrameInv, Shown
    <3>2. CASE \A t \in Thread : pc[t] # "wrap"
      BY <2>1, <3>2 DEF FrameInv, Shown, Following
    <3> QED BY <3>1, <3>2
  <2>4. {m_bIsInitialized, m_bIsGIF, m_bIsPlaying, m_bExitThread,
         m_hExitEvent, m_hDispMemDC} \subseteq BOOLEAN
    BY DEF FlagTypes, PlayInv, FrameInv
  <2> QED BY <2>2, <2>3, <2>4 DEF TypeOK, HandleInv, HandleTypes, FrameInv
<1> QED BY <1>1, <1>2, <1>3, <1>4, <1>5, HandleInvariant, FrameInvariant, PTL
        DEF Spec
=============================================================================
