----------------------------- MODULE NativeCalls -----------------------------
(***************************************************************************)
(* The call boundary of the baseline JIT: one stack of Lua frames shared   *)
(* by the Go loops that enter compiled code (callCompiled and, for a frame *)
(* native code pushed, finishNestedCompiledCall with resumeCompiledFrame), *)
(* by native calls from compiled code to compiled code, by the interpreter *)
(* and by host functions that call back.                                   *)
(*                                                                         *)
(* Compiled code leaves for the runtime by returning a status.  If it was  *)
(* called natively, its native caller receives the status, notes in the    *)
(* execution context which site of which callee is pending, and leaves in  *)
(* its turn: the whole native chain above the last Go loop is gone, but    *)
(* its frames stay on the thread for the runtime to take over.             *)
(*                                                                         *)
(* An instruction stands for those of one kind of exit; a site is named by *)
(* the instruction that records it.  Registers, results and feedback are   *)
(* left out: a frame is a function and the instruction it is at.           *)
(***************************************************************************)
EXTENDS Naturals, Sequences, FiniteSets

CONSTANTS
  Functions,
  Programs,   \* the programs: a sequence of instructions for each function
  Supported,  \* the functions the baseline compiler accepts
  MaxFrames   \* frame capacity of the thread

VARIABLES
  program,
  frames,     \* the thread's frames up to the current one
  control,    \* who executes on whose behalf, innermost last
  ctx,        \* the pending exit: status and execution context
  flags,      \* VM flags as native code sees them
  compiled,   \* prototypes with a published compiled entry
  open,       \* frames with an open upvalue on one of their slots
  failing     \* an error is on its way up

vars == <<program, frames, control, ctx, flags, compiled, open, failing>>

C == INSTANCE Calls WITH stack <- frames

ASSUME NativeCallsAssumption ==
  /\ Supported \subseteq Functions
  /\ MaxFrames \in Nat \ {0}
  /\ Programs \subseteq [Functions -> Seq(C!Instruction)]

Stubs == {"access", "closure", "close", "loop", "setupval", "call", "tailcall"}
StubOf(op) == CASE op = "meta" -> "access" [] op = "host" -> "call" [] OTHER -> op

Activation ==
  [kind : {"compiled", "nested", "native", "interp", "guarded", "deopt", "host"},
   frame : 1..MaxFrames,  \* index of the frame it executes
   site : Nat]            \* the instruction it waits at, 0 if none

Exit ==
  [status : {"none", "ok", "stub", "deopt", "error"},
   stub : Stubs \cup {"none"}, site : Nat,
   flags : SUBSET {"safepoint", "marking", "nested", "nestedDeopt", "nestedError"},
   inner : Nat, innerStub : Stubs \cup {"none"}]

NoExit == [status |-> "none", stub |-> "none", site |-> 0, flags |-> {},
           inner |-> 0, innerStub |-> "none"]
Ok == [NoExit EXCEPT !.status = "ok"]

TypeOK ==
  /\ program \in Programs
  /\ frames \in Seq(C!Frame) /\ Len(frames) <= MaxFrames
  /\ control \in Seq(Activation)
  /\ ctx \in Exit
  /\ flags \in {{}, {"safepoint"}, {"safepoint", "marking"}}
  /\ compiled \subseteq Supported
  /\ open \subseteq 1..MaxFrames
  /\ failing \in BOOLEAN

Init ==
  /\ program \in Programs
  /\ frames = <<>>
  /\ control = <<>>
  /\ ctx = NoExit
  /\ flags = {}
  /\ compiled = {}
  /\ open = {}
  /\ failing = FALSE

-----------------------------------------------------------------------------
(* Activations                                                             *)

Act(k, f) == [kind |-> k, frame |-> f, site |-> 0]
Top == control[Len(control)]
TopIs(kinds) == control # <<>> /\ Top.kind \in kinds
Below == SubSeq(control, 1, Len(control) - 1)
WaitAt(s) == [control EXCEPT ![Len(control)].site = s]

Loops == {"compiled", "nested"}
Interpreters == {"interp", "guarded", "deopt"}

CodeOf(f) == program[frames[f].fn]
At(f) == CodeOf(f)[frames[f].pc]
Runs(ops) == ~C!AtEnd(frames[Top.frame]) /\ At(Top.frame).op \in ops

SetFrame(f, frame) == [frames EXCEPT ![f] = frame]

\* SyncActiveThread recomputes the flags whenever compiled code is entered; the
\* collector may have moved on at any boundary before.
EnterNative == flags' \in {{}, {"safepoint"}, {"safepoint", "marking"}}

Raise ==
  /\ failing' = TRUE
  /\ ctx' = NoExit
  /\ UNCHANGED <<program, frames, control, flags, open>>

\* Slip: compiled code is entered at the instruction it left at.
ResumeAtSite(ctl, fs, s) ==
  LET f == ctl[Len(ctl)].frame IN
  /\ frames' = [fs EXCEPT ![f].pc = s]
  /\ control' = Append([ctl EXCEPT ![Len(ctl)].site = 0], Act("native", f))
  /\ ctx' = NoExit
  /\ EnterNative

\* The Go loop on top of ctl enters its frame's code behind the site s.
Resume(ctl, fs, s) ==
  LET f == ctl[Len(ctl)].frame IN
  /\ frames' = [fs EXCEPT ![f].pc = s + 1]
  /\ control' = Append([ctl EXCEPT ![Len(ctl)].site = 0], Act("native", f))
  /\ ctx' = NoExit
  /\ EnterNative

\* A callee has returned to the activation on top of ctl, its frame popped.  A
\* tail call finishes the loop or the interpretation it was made from.
Deliver(ctl, fs) ==
  IF ctl = <<>>
  THEN frames' = fs /\ control' = ctl /\ ctx' = NoExit /\ UNCHANGED flags
  ELSE
  LET b == ctl[Len(ctl)]
      caller == IF b.kind \in Loops THEN [fs[b.frame] EXCEPT !.pc = b.site] ELSE fs[b.frame]
      tail == C!IsAt(caller, {"tailcall"})
  IN  IF b.kind \in Loops /\ ~tail THEN Resume(ctl, fs, b.site)
      ELSE /\ frames' = [fs EXCEPT ![b.frame] = C!Resumed(caller)]
           /\ control' = [ctl EXCEPT ![Len(ctl)].site = 0]
           /\ ctx' = IF b.kind \in Loops THEN Ok ELSE NoExit
           /\ UNCHANGED flags

\* The callee's results cannot be stored in the frame of the caller, or the
\* boundary's step of the collector fails: the call that is being made fails after
\* its callee returned.  A tail call has nothing to store.
NotStored(ctl, fs) ==
  /\ ctl # <<>>
  /\ C!IsAt(fs[ctl[Len(ctl)].frame], {"call", "meta"})
  /\ frames' = fs
  /\ control' = ctl
  /\ ctx' = NoExit
  /\ failing' = TRUE
  /\ UNCHANGED flags

Popped == SubSeq(frames, 1, Len(frames) - 1)

\* PushFrame and what executes the new frame; it fails without effect when the
\* frames are exhausted.
Push(ctl, g, kinds) ==
  IF Len(frames) = MaxFrames THEN Raise
  ELSE /\ frames' = Append(frames, C!Start(g))
       /\ control' = ctl \o [i \in 1..Len(kinds) |-> Act(kinds[i], Len(frames) + 1)]
       /\ ctx' = NoExit
       /\ IF "native" \in {kinds[i] : i \in 1..Len(kinds)} THEN EnterNative
                                                           ELSE UNCHANGED flags
       /\ UNCHANGED <<program, open, failing>>

\* Runtime.Call: compile and enter, or hand over to Engine.Call.
RuntimeCall(ctl, g) ==
  IF g \in Supported
  THEN compiled' = compiled \cup {g} /\ Push(ctl, g, <<"compiled", "native">>)
  ELSE UNCHANGED compiled /\ Push(ctl, g, <<"guarded">>)

\* Engine.CallValueBoundary: the interpreter runs the callee.
Interpret(ctl, g) == UNCHANGED compiled /\ Push(ctl, g, <<"interp">>)

-----------------------------------------------------------------------------
(* Native code                                                             *)

InNative == ~failing /\ TopIs({"native"})

\* An instruction native code completes by itself.
NativeAdvance ==
  /\ InNative
  /\ \/ Runs({"access"})
     \/ Runs({"loop"}) /\ "safepoint" \notin flags
     \/ Runs({"setupval"}) /\ "marking" \notin flags
  /\ frames' = SetFrame(Top.frame, C!Past(frames[Top.frame]))
  /\ UNCHANGED <<program, control, ctx, flags, compiled, open, failing>>

\* Slip: the native push does not look for room.
NativeCallUnchecked ==
  /\ InNative
  /\ Runs({"call", "tailcall"})
  /\ LET f == Top.frame
         g == At(f).callee
     IN  /\ g \in compiled
         /\ frames' = Append(SubSeq(frames, 1, f), C!Start(g))
         /\ control' = Append(WaitAt(frames[f].pc), Act("native", f + 1))
  /\ UNCHANGED <<program, ctx, flags, compiled, open, failing>>

\* A call whose inline cache holds a compiled closure.
NativeCall ==
  /\ InNative
  /\ Runs({"call", "tailcall"})
  /\ LET f == Top.frame
         g == At(f).callee
     IN  /\ g \in compiled
         /\ f < MaxFrames
         /\ frames' = Append(SubSeq(frames, 1, f), C!Start(g))
         /\ control' = Append(WaitAt(frames[f].pc), Act("native", f + 1))
  /\ UNCHANGED <<program, ctx, flags, compiled, open, failing>>

\* The innermost Go loop and the native activations above it.
LoopIndex ==
  CHOOSE i \in DOMAIN control :
    control[i].kind \in Loops /\ \A j \in i + 1..Len(control) : control[j].kind = "native"
Natives == Len(control) - LoopIndex

\* Slip: the callee's site is overwritten with the caller's.
PublishedOwnSite(n, exit) ==
  IF n = 1 THEN exit
  ELSE LET outer == control[LoopIndex + 1] IN
       [status |-> "stub", stub |-> StubOf(CodeOf(outer.frame)[outer.site].op),
        site |-> outer.site,
        flags |-> {"nested"} \cup (CASE exit.status = "deopt" -> {"nestedDeopt"}
                                    [] exit.status = "error" -> {"nestedError"}
                                    [] OTHER -> {}),
        inner |-> outer.site, innerStub |-> exit.stub]

\* What the native callers make of an exit with n activations left to cross: the
\* one Go code entered publishes its own call site, and the site its callee told
\* it in the reserved fields.
Published(n, exit) ==
  IF n = 1 THEN exit
  ELSE LET outer == control[LoopIndex + 1]
           next == control[LoopIndex + 2]
       IN  [status |-> "stub",
            stub |-> StubOf(CodeOf(outer.frame)[outer.site].op),
            site |-> outer.site,
            flags |-> {"nested"} \cup
                        (IF n > 2 THEN {} ELSE CASE exit.status = "deopt" -> {"nestedDeopt"}
                                                 [] exit.status = "error" -> {"nestedError"}
                                                 [] OTHER -> {}),
            inner |-> IF n = 2 THEN exit.site ELSE next.site,
            innerStub |-> IF n = 2 THEN exit.stub
                          ELSE StubOf(CodeOf(next.frame)[next.site].op)]

\* The exits of one activation: the status it returns to its caller.
StubExit(s, stub, fl) == [NoExit EXCEPT !.status = "stub", !.stub = stub, !.site = s, !.flags = fl]

Leave(n, exit) ==
  /\ ctx' = Published(n, exit)
  /\ control' = SubSeq(control, 1, LoopIndex)
  /\ UNCHANGED <<program, flags, compiled, open, failing>>

ExitsAt(f) ==
  LET s == frames[f].pc
      stub == {StubExit(s, StubOf(At(f).op), {})}
      status(x) == {[NoExit EXCEPT !.status = x, !.site = s]}
  IN  CASE Runs({"access"}) -> stub \cup status("deopt")
        [] Runs({"meta", "closure", "close", "call", "tailcall", "host"}) -> stub
        [] Runs({"loop"}) -> status("error")
        [] Runs({"setupval"}) -> IF "marking" \in flags THEN {StubExit(s, "setupval", {"marking"})}
                                                         ELSE {}
        [] OTHER -> {}

NativeExit(n) ==
  /\ InNative
  /\ Natives = n
  /\ \E exit \in ExitsAt(Top.frame) : Leave(n, exit)
  /\ UNCHANGED frames

\* A numeric loop steps, then leaves at the safepoint.
LoopSafepoint(n) ==
  /\ InNative
  /\ Natives = n
  /\ Runs({"loop"}) /\ "safepoint" \in flags
  /\ frames' = SetFrame(Top.frame, C!Past(frames[Top.frame]))
  /\ Leave(n, StubExit(frames[Top.frame].pc, "loop", {"safepoint"}))

\* A native callee returns: to its native caller, or to the Go loop.
ReturnsToNative == InNative /\ C!AtEnd(frames[Top.frame]) /\ Natives > 1

NativeReturn ==
  /\ InNative
  /\ C!AtEnd(frames[Top.frame])
  /\ Natives = 1
  /\ control' = Below
  /\ ctx' = Ok
  /\ UNCHANGED <<program, frames, flags, compiled, open, failing>>

\* The caller's state is restored from the machine stack; it goes on unless its
\* call must stop at a safepoint.
NativeCallDone ==
  /\ ReturnsToNative
  /\ LET f == Below[Len(Below)].frame IN
     /\ "safepoint" \in flags => At(f).op = "tailcall"
     /\ frames' = [SubSeq(frames, 1, f) EXCEPT ![f] = C!Resumed(@)]
     /\ control' = [Below EXCEPT ![Len(Below)].site = 0]
  /\ UNCHANGED <<program, ctx, flags, compiled, open, failing>>

CallSafepoint(n) ==
  /\ ReturnsToNative
  /\ Natives = n + 1
  /\ "safepoint" \in flags
  /\ LET f == Below[Len(Below)].frame IN
     /\ At(f).op = "call"
     /\ frames' = [SubSeq(frames, 1, f) EXCEPT ![f] = C!Resumed(@)]
     /\ Leave(n, StubExit(frames[f].pc, "call", {"safepoint"}))

-----------------------------------------------------------------------------
(* The Go loop                                                             *)

Serves(status) == ~failing /\ TopIs(Loops) /\ ctx.status = status
Fails == Raise /\ UNCHANGED compiled

\* Slip: a frame's upvalues are left open when it is popped.
FinishOpen ==
  /\ Serves("ok")
  /\ Deliver(Below, Popped)
  /\ UNCHANGED <<program, compiled, open, failing>>

\* The cleanup of callCompiled and of finishNestedCompiledCall.
Finish ==
  /\ Serves("ok")
  /\ open' = open \ {Top.frame}
  /\ \/ Deliver(Below, Popped) /\ UNCHANGED failing
     \/ NotStored(Below, Popped)
  /\ UNCHANGED <<program, compiled>>

\* ResumeLuaFrame: the interpreter takes the frame over at the site.
Deoptimise ==
  IF Len(frames) # Top.frame THEN Fails
  ELSE /\ frames' = SetFrame(Top.frame, [frames[Top.frame] EXCEPT !.pc = ctx.site])
       /\ control' = Append(control, Act("deopt", Top.frame))
       /\ ctx' = NoExit
       /\ UNCHANGED <<program, flags, compiled, open, failing>>

HandleDeopt == Serves("deopt") /\ Deoptimise
HandleError == Serves("error") /\ Fails

SiteMatches ==
  /\ ctx.site \in DOMAIN CodeOf(Top.frame)
  /\ StubOf(CodeOf(Top.frame)[ctx.site].op) = ctx.stub

ResumeBehind(opened) ==
  /\ Resume(control, frames, ctx.site)
  /\ open' = opened
  /\ UNCHANGED <<program, compiled, failing>>

HandleMarking ==
  /\ Serves("stub") /\ "marking" \in ctx.flags
  /\ IF SiteMatches THEN ResumeBehind(open) ELSE Fails

\* The collector's step at the safepoint may fail.
HandleSafepoint ==
  /\ Serves("stub") /\ "safepoint" \in ctx.flags
  /\ \/ SiteMatches /\ ResumeBehind(open)
     \/ Fails

ServesStub == Serves("stub") /\ ctx.flags \cap {"marking", "safepoint"} = {}
Served == CodeOf(Top.frame)[ctx.site]
ServesOp(ops) == ServesStub /\ SiteMatches /\ Served.op \in ops

\* "stub/site mismatch", or a stub handleStub has no case for.
RejectStub == ServesStub /\ (~SiteMatches \/ ctx.stub \in {"loop", "setupval"}) /\ Fails

HandleAccess ==
  /\ ServesOp({"access"})
  /\ ResumeBehind(open) \/ Deoptimise \/ Fails

HandleMeta == ServesOp({"meta"}) /\ Interpret(WaitAt(ctx.site), Served.callee)

\* An instruction that would leave opened as the frames with open upvalues does
\* so, or fails before or after it did.
UpvaluesFail(opened) ==
  /\ failing' = TRUE
  /\ ctx' = NoExit
  /\ open' \in {open, opened}
  /\ UNCHANGED <<program, frames, control, flags, compiled>>

HandleUpvalues(opened) == ResumeBehind(opened) \/ UpvaluesFail(opened)
HandleClosure == ServesOp({"closure"}) /\ HandleUpvalues(open \cup {Top.frame})
HandleClose == ServesOp({"close"}) /\ HandleUpvalues(open \ {Top.frame})

HandleCall ==
  /\ ServesOp({"call", "tailcall"}) /\ "nested" \notin ctx.flags
  /\ RuntimeCall(WaitAt(ctx.site), Served.callee) \/ Fails

HandleHostCall ==
  /\ ServesOp({"host"}) /\ "nested" \notin ctx.flags
  /\ control' = Append(WaitAt(ctx.site), Act("host", Len(frames)))
  /\ ctx' = NoExit
  /\ UNCHANGED <<program, frames, flags, compiled, open, failing>>

\* finishNestedCompiledCall takes over the frame the native callee left behind,
\* with the site and the stub of the reserved fields and no flags.
FinishNested ==
  /\ ServesStub /\ SiteMatches /\ "nested" \in ctx.flags
  /\ IF Len(frames) = Top.frame THEN Fails
     ELSE /\ control' = Append(WaitAt(ctx.site), Act("nested", Len(frames)))
          /\ ctx' = [NoExit EXCEPT
                       !.status = CASE "nestedDeopt" \in ctx.flags -> "deopt"
                                    [] "nestedError" \in ctx.flags -> "error"
                                    [] OTHER -> "stub",
                       !.site = ctx.inner, !.stub = ctx.innerStub]
          /\ UNCHANGED <<program, frames, flags, compiled, open, failing>>

-----------------------------------------------------------------------------
(* The interpreter, host functions and the host                            *)

Interpreting == ~failing /\ TopIs(Interpreters)

InterpAdvance ==
  /\ Interpreting
  /\ Runs({"access", "loop", "closure", "close", "setupval"})
  /\ frames' = SetFrame(Top.frame, C!Past(frames[Top.frame]))
  /\ open' = CASE At(Top.frame).op = "closure" -> open \cup {Top.frame}
              [] At(Top.frame).op = "close" -> open \ {Top.frame}
              [] OTHER -> open
  /\ UNCHANGED <<program, control, ctx, flags, compiled, failing>>

InterpFail ==
  /\ Interpreting
  /\ \/ Runs({"access", "loop", "meta", "call", "tailcall"}) /\ Fails
     \/ Runs({"closure"}) /\ UpvaluesFail(open \cup {Top.frame})
     \/ Runs({"close"}) /\ UpvaluesFail(open \ {Top.frame})

InterpCall ==
  /\ Interpreting
  /\ Runs({"call", "tailcall", "meta"})
  /\ Interpret(control, At(Top.frame).callee)

InterpHostCall ==
  /\ Interpreting
  /\ Runs({"host"})
  /\ control' = Append(control, Act("host", Len(frames)))
  /\ UNCHANGED <<program, frames, ctx, flags, compiled, open, failing>>

InterpReturn ==
  /\ Interpreting
  /\ C!AtEnd(frames[Top.frame])
  /\ Top.kind # "deopt"
  /\ open' = open \ {Top.frame}
  /\ \/ Deliver(Below, Popped) /\ UNCHANGED failing
     \/ NotStored(Below, Popped)
  /\ UNCHANGED <<program, compiled>>

\* The interpreter returns the results of a frame it took over to the Go loop,
\* which finishes it.
DeoptReturn ==
  /\ Interpreting
  /\ C!AtEnd(frames[Top.frame])
  /\ Top.kind = "deopt"
  /\ control' = Below
  /\ ctx' = Ok
  /\ UNCHANGED <<program, frames, flags, compiled, open, failing>>

\* A host function may call back through the runtime or the engine.
InHost == ~failing /\ (control = <<>> \/ TopIs({"host"}))

HostCalls ==
  /\ InHost
  /\ \E g \in Functions :
       \/ RuntimeCall(control, g)
       \/ UNCHANGED compiled /\ Push(control, g, <<"guarded">>)

HostReturn ==
  /\ ~failing /\ TopIs({"host"})
  /\ LET b == Below[Len(Below)] IN
     IF b.kind \in Loops THEN Resume(Below, frames, b.site)
     ELSE /\ frames' = SetFrame(b.frame, C!Past(frames[b.frame]))
          /\ control' = Below
          /\ UNCHANGED <<ctx, flags>>
  /\ UNCHANGED <<program, compiled, open, failing>>

\* The host function fails, or its results cannot be stored.
HostFail ==
  /\ ~failing /\ TopIs({"host"})
  /\ failing' = TRUE
  /\ control' = Below
  /\ UNCHANGED <<program, frames, ctx, flags, compiled, open>>

-----------------------------------------------------------------------------
(* Errors                                                                  *)

\* Slip: finishNestedCompiledCall returns the error without its cleanup.
UnwindNestedBare ==
  /\ failing /\ TopIs({"compiled", "nested", "interp"})
  /\ control' = Below
  /\ frames' = IF Top.kind = "nested" THEN frames ELSE Popped
  /\ open' = IF Top.kind = "nested" THEN open ELSE open \ {Top.frame}
  /\ UNCHANGED <<program, ctx, flags, compiled, failing>>

\* Each call cleans its own frame up: upvalues closed, the thread's top popped.
UnwindCall ==
  /\ failing /\ TopIs({"compiled", "nested", "interp"})
  /\ control' = Below
  /\ frames' = Popped
  /\ open' = open \ {Top.frame}
  /\ UNCHANGED <<program, ctx, flags, compiled, failing>>

\* Engine.Call and ProtectedCall pop down to the frame they started from.
RestoreSnapshot ==
  /\ failing /\ TopIs({"guarded"})
  /\ control' = Below
  /\ frames' = SubSeq(frames, 1, Top.frame - 1)
  /\ open' = open \ (Top.frame..MaxFrames)
  /\ UNCHANGED <<program, ctx, flags, compiled, failing>>

UnwindDeopt ==
  /\ failing /\ TopIs({"deopt"})
  /\ control' = Below
  /\ UNCHANGED <<program, frames, ctx, flags, compiled, open, failing>>

\* A host function that called back drops the error or hands it on.
HostHasError ==
  /\ failing /\ (control = <<>> \/ TopIs({"host"}))
  /\ \/ failing' = FALSE /\ UNCHANGED control
     \/ control # <<>> /\ control' = Below /\ UNCHANGED failing
  /\ UNCHANGED <<program, frames, ctx, flags, compiled, open>>

-----------------------------------------------------------------------------
(* The system                                                              *)

RuntimeNext ==
  \/ Finish \/ HandleDeopt \/ HandleError \/ HandleMarking \/ HandleSafepoint
  \/ HandleAccess \/ HandleMeta \/ HandleClosure \/ HandleClose \/ HandleCall
  \/ HandleHostCall \/ FinishNested
  \/ InterpAdvance \/ InterpFail \/ InterpCall \/ InterpHostCall \/ InterpReturn \/ DeoptReturn
  \/ HostCalls \/ HostReturn \/ HostFail
  \/ UnwindCall \/ RestoreSnapshot \/ UnwindDeopt \/ HostHasError

Next ==
  \/ NativeAdvance \/ NativeCall \/ NativeReturn \/ NativeCallDone
  \/ \E n \in 1..MaxFrames : NativeExit(n) \/ LoopSafepoint(n) \/ CallSafepoint(n)
  \/ RuntimeNext \/ RejectStub

Spec == Init /\ [][Next]_vars

-----------------------------------------------------------------------------
(* A second native call, or an exit with a GC flag from a native callee,   *)
(* loses what the callee told its caller: Published keeps one site and the *)
(* flags of one activation.  What follows holds of programs whose compiled *)
(* calls stay clear of both; for them the runtime has a case for every     *)
(* stub, so RejectStub is left out.  The runs on Spec show what becomes of *)
(* other programs.                                                         *)

ClearCall ==
  /\ NativeCall
  /\ Natives = 1
  /\ \A s \in DOMAIN program[At(Top.frame).callee] :
       LET op == program[At(Top.frame).callee][s].op IN
       /\ op = "loop" => "safepoint" \notin flags
       /\ op = "setupval" => "marking" \notin flags

ClearNext ==
  \/ ClearCall \/ NativeAdvance \/ NativeReturn \/ NativeCallDone \/ NativeExit(1) \/ NativeExit(2)
  \/ LoopSafepoint(1) \/ CallSafepoint(1) \/ RuntimeNext

ClearSpec == Init /\ [][ClearNext]_vars

-----------------------------------------------------------------------------
(* Properties                                                              *)

\* Who cleans a frame up: the call that pushed it or took it over, or the native
\* caller for as long as it waits.
OwnsFrame(i) ==
  \/ control[i].kind \in {"compiled", "nested", "interp", "guarded"}
  \/ i > 1 /\ control[i].kind = "native" /\ control[i - 1].kind = "native"
FrameBelow(i) == IF i = 1 THEN 0 ELSE control[i - 1].frame

\* Each frame of the thread has one owner, in stack order, and who owns none works
\* on the frame of its caller; only the frame of a nested call that is about to be
\* finished has no owner (PushFrame, PopFrame).
FramesAccounted ==
  /\ \A i \in DOMAIN control :
       control[i].frame = IF OwnsFrame(i) THEN FrameBelow(i) + 1 ELSE FrameBelow(i)
  /\ Len(frames) = FrameBelow(Len(control) + 1) + (IF "nested" \in ctx.flags THEN 1 ELSE 0)

\* No upvalue stays open on a slot whose frame is gone, although native code pops
\* frames without closing anything.
OpenInFrames == open \subseteq DOMAIN frames

\* The site an exit is served at is the one its frame stopped at, for the frame
\* itself, for the callee it left behind and for every caller that waits.
ServedWhereStopped ==
  /\ Serves("stub") \/ Serves("deopt") =>
       frames[Top.frame].pc = IF "safepoint" \in ctx.flags THEN ctx.site + 1 ELSE ctx.site
  /\ "nested" \in ctx.flags => ctx.inner = frames[Len(frames)].pc
  /\ \A i \in DOMAIN control : control[i].site # 0 => control[i].site = frames[control[i].frame].pc

\* However calls are executed, the program sees a plain call stack: each
\* instruction done once, each call made once, errors unwound frame by frame.
CallsOnce == C!Spec

\* A call that has returned is not made again to serve the safepoint after it.
CallsNotRepeated ==
  ServesOp({"call"}) /\ "nested" \notin ctx.flags => frames[Top.frame].pc = ctx.site
=============================================================================
