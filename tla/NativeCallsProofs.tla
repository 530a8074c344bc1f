-------------------------- MODULE NativeCallsProofs --------------------------
(***************************************************************************)
(* However a call is executed, the thread's frames have one owner each,    *)
(* exits are served where their frames stopped, and the program sees a     *)
(* plain call stack: for any functions, programs and frame capacity.       *)
(***************************************************************************)
EXTENDS NativeCalls, SequenceTheorems, TLAPS

-----------------------------------------------------------------------------
(* The inductive invariant                                                 *)

CanCall == {"interp", "guarded", "deopt", "host"}

\* An activation that has called something and waits for it.
Suspended(a) == IF a.kind \in Loops THEN a.site # 0 ELSE a.kind \in CanCall

\* What may stand above what in the control stack, and whose frame it executes.
Link(a, b) ==
  \/ b.kind \in {"native", "deopt"} /\ a.kind \in Loops /\ a.site = 0 /\ b.frame = a.frame
  \/ b.kind = "native" /\ a.kind = "native" /\ a.site # 0 /\ b.frame = a.frame + 1
  \/ b.kind = "nested" /\ a.kind \in Loops /\ a.site # 0 /\ b.frame = a.frame + 1
  \/ b.kind \in {"compiled", "interp", "guarded"} /\ Suspended(a) /\ b.frame = a.frame + 1
  \/ b.kind = "host" /\ Suspended(a) /\ a.kind # "host" /\ b.frame = a.frame

\* b was called from a, which stands at the call.
Called(a, b) == b.kind = "host" \/ b.frame # a.frame
CallOps(a, b) ==
  IF a.kind = "host" \/ b.kind = "host" THEN {"host"}
  ELSE IF b.kind \in {"native", "nested"} THEN {"call", "tailcall"}
  ELSE {"call", "tailcall", "meta"}

\* The control stack ctl over the frames fs.
Stack(ctl, fs) ==
  /\ ctl # <<>> => ctl[1].kind \in {"compiled", "guarded"} /\ ctl[1].frame = 1
  /\ \A i, j \in 1..Len(ctl) : i <= j => /\ ctl[i].frame <= ctl[j].frame
                                         /\ ctl[i].kind = "native" => ctl[j].kind = "native"
  /\ \A i \in 1..Len(ctl) - 1 :
       /\ Link(ctl[i], ctl[i + 1])
       /\ Called(ctl[i], ctl[i + 1])
            => C!IsAt(fs[ctl[i].frame], CallOps(ctl[i], ctl[i + 1]))
  /\ \A i \in 1..Len(ctl) - 2 : ctl[i].kind # "native"
  /\ \A i \in 1..Len(ctl) :
       ctl[i].site # 0 => /\ ctl[i].kind \in Loops \cup {"native"}
                          /\ ctl[i].site = fs[ctl[i].frame].pc

Height(ctl) == IF ctl = <<>> THEN 0 ELSE ctl[Len(ctl)].frame

\* The thread: its activations, its frames, and the frames with open upvalues,
\* among them none that a native activation will pop by itself.
Core(ctl, fs, opened) ==
  /\ ctl \in Seq(Activation)
  /\ fs \in Seq(C!Frame) /\ Len(fs) <= MaxFrames
  /\ Stack(ctl, fs)
  /\ opened \subseteq 1..Len(fs)
  /\ \A i \in 1..Len(ctl) - 1 : ctl[i].kind = "native" => ctl[i + 1].frame \notin opened

\* What an exit says of the frame it left, and of the callee it left behind.
ExitSound ==
  /\ ctx.status = "none" => ctx = NoExit
  /\ ctx.status # "none" => ~failing /\ TopIs(Loops)
  /\ ctx.status = "ok" => ctx = Ok /\ C!AtEnd(frames[Top.frame])
  /\ ctx.status \in {"stub", "deopt", "error"} =>
       /\ ctx.site \in DOMAIN CodeOf(Top.frame)
       /\ frames[Top.frame].pc = IF "safepoint" \in ctx.flags THEN ctx.site + 1 ELSE ctx.site
  /\ ctx.status = "stub" => SiteMatches
  /\ ctx.status # "stub" => ctx.flags = {}
  /\ "marking" \in ctx.flags => Served.op = "setupval" /\ "safepoint" \notin ctx.flags
  /\ "nested" \in ctx.flags =>
       /\ ctx.flags \cap {"marking", "safepoint"} = {}
       /\ Served.op \in {"call", "tailcall"}
       /\ ctx.inner \in DOMAIN CodeOf(Len(frames))
       /\ ctx.inner = frames[Len(frames)].pc
       /\ ctx.flags \cap {"nestedDeopt", "nestedError"} = {}
            => ctx.innerStub = StubOf(CodeOf(Len(frames))[ctx.inner].op)

FlagsOK == flags \in {{}, {"safepoint"}, {"safepoint", "marking"}}

NInv ==
  /\ program \in Programs /\ ctx \in Exit /\ FlagsOK /\ compiled \subseteq Supported
  /\ failing \in BOOLEAN
  /\ Core(control, frames, open)
  /\ Len(frames) = Height(control) + (IF "nested" \in ctx.flags THEN 1 ELSE 0)
  /\ ~failing /\ control # <<>> => Top.site = 0
  /\ ExitSound

-----------------------------------------------------------------------------
(* The control stack                                                       *)

\* Programs are made of instructions.
LEMMA ProgramTyped ==
  ASSUME program \in Programs
  PROVE  program \in [Functions -> Seq(C!Instruction)]
BY NativeCallsAssumption DEF NativeCallsAssumption

\* Each activation executes a frame of the thread.
LEMMA ActivationFrame ==
  ASSUME NEW ctl \in Seq(Activation)
  PROVE  \A j \in 1..Len(ctl) : /\ ctl[j] \in Activation
                                /\ ctl[j].frame \in Nat /\ ctl[j].frame > 0
                                /\ ctl[j].frame <= MaxFrames
<1>1. \A j \in 1..Len(ctl) : ctl[j] \in Activation
  OBVIOUS
<1>2. ASSUME NEW a \in Activation
      PROVE  a.frame \in Nat /\ a.frame > 0 /\ a.frame <= MaxFrames
  BY NativeCallsAssumption DEF NativeCallsAssumption, Activation
<1> QED
  BY <1>1, <1>2

\* An activation that the last one called, or that works on its frame, may stand
\* on it.
LEMMA PushStack ==
  ASSUME NEW ctl \in Seq(Activation), NEW fs, Stack(ctl, fs), NEW a \in Activation, a.site = 0,
         ctl = <<>> => a.kind \in {"compiled", "guarded"} /\ a.frame = 1,
         ctl # <<>> => /\ Link(ctl[Len(ctl)], a)
                       /\ Called(ctl[Len(ctl)], a)
                            => C!IsAt(fs[ctl[Len(ctl)].frame], CallOps(ctl[Len(ctl)], a)),
         \A i \in 1..Len(ctl) - 1 : ctl[i].kind # "native"
  PROVE  Append(ctl, a) \in Seq(Activation) /\ Stack(Append(ctl, a), fs)
<1> DEFINE c == Append(ctl, a)
<1>1. PICK n \in Nat : n = Len(ctl)
  OBVIOUS
<1>2. /\ c \in Seq(Activation) /\ Len(c) = n + 1 /\ c[n + 1] = a
      /\ \A i \in 1..n : c[i] = ctl[i]
  BY <1>1
<1>3. \A i \in 1..n : ctl[i] \in Activation
  BY <1>1
<1> HIDE DEF c
<1>4. c[1].kind \in {"compiled", "guarded"} /\ c[1].frame = 1
  <2>1. CASE n = 0
    <3>0. n + 1 = 1 /\ Len(ctl) = 0
      BY <1>1, <2>1
    <3>a. ctl = <<>>
      BY <3>0
    <3>b. c[1] = a
      BY <1>2, <3>0
    <3>1. ctl = <<>> /\ c[1] = a
      BY <3>a, <3>b
    <3> QED
      BY <3>1
  <2>2. CASE n # 0
    BY <1>1, <1>2, <2>2 DEF Stack
  <2> QED
    BY <2>1, <2>2
<1>5. n # 0 => Link(c[n], c[n + 1])
  BY <1>1, <1>2
<1>6. n # 0 => /\ ctl[n].frame <= a.frame
               /\ ctl[n].kind = "native" => a.kind = "native"
  <2> SUFFICES ASSUME n # 0
               PROVE  ctl[n].frame <= a.frame /\ (ctl[n].kind = "native" => a.kind = "native")
    OBVIOUS
  <2>1. PICK x \in Activation : x = ctl[n]
    BY <1>3
  <2>2. Link(x, a)
    BY <1>1, <1>2, <1>5, <2>1
  <2>3. x.frame \in Nat /\ a.frame \in Nat /\ x.frame <= x.frame + 1
    BY DEF Activation
  <2>4. a.frame = x.frame \/ a.frame = x.frame + 1
    BY <2>2 DEF Link
  <2>5. x.kind = "native" => a.kind = "native"
    BY <2>2 DEF Link, Suspended, CanCall, Loops
  <2> QED
    BY <2>1, <2>3, <2>4, <2>5
<1>7. ASSUME NEW i \in 1..(n + 1), NEW j \in 1..(n + 1), i <= j
      PROVE  c[i].frame <= c[j].frame /\ (c[i].kind = "native" => c[j].kind = "native")
  <2>1. CASE j \in 1..n
    <3>1. i \in 1..n
      BY <1>7, <2>1
    <3> QED
      BY <1>1, <1>2, <1>7, <2>1, <3>1 DEF Stack
  <2>2. CASE j = n + 1 /\ i \in 1..n
    <3>1. /\ n # 0 /\ n \in 1..n
          /\ ctl[i].frame <= ctl[n].frame /\ (ctl[i].kind = "native" => ctl[n].kind = "native")
      BY <1>1, <2>2 DEF Stack
    <3>2. ctl[i].frame \in Nat /\ ctl[n].frame \in Nat /\ a.frame \in Nat
      BY SMTT(30), <1>3, <2>2, <3>1 DEF Activation
    <3> QED
      BY <1>2, <1>6, <2>2, <3>1, <3>2
  <2>3. CASE j = n + 1 /\ i = n + 1
    BY <1>2, <2>3 DEF Activation
  <2> QED
    BY <2>1, <2>2, <2>3
<1>8. ASSUME NEW i \in 1..n
      PROVE  /\ Link(c[i], c[i + 1])
             /\ Called(c[i], c[i + 1]) => C!IsAt(fs[c[i].frame], CallOps(c[i], c[i + 1]))
  <2>1. CASE i = n
    BY <1>1, <1>2, <2>1
  <2>2. CASE i # n
    <3>1. i \in 1..(n - 1) /\ i + 1 \in 1..n
      BY <2>2
    <3> QED
      BY <1>1, <1>2, <3>1 DEF Stack
  <2> QED
    BY <2>1, <2>2
<1>9. \A i \in 1..(n - 1) : c[i].kind # "native"
  BY <1>1, <1>2
<1>10. ASSUME NEW i \in 1..(n + 1), c[i].site # 0
       PROVE  c[i].kind \in Loops \cup {"native"} /\ c[i].site = fs[c[i].frame].pc
  BY <1>1, <1>2, <1>10 DEF Stack
<1>11. Stack(c, fs)
  <2>1. (n + 1) - 1 = n /\ (n + 1) - 2 = n - 1
    OBVIOUS
  <2> QED
    BY <1>2, <1>4, <1>7, <1>8, <1>9, <1>10, <2>1 DEF Stack
<1> QED
  BY <1>2, <1>11 DEF c

\* The last activation may leave.
LEMMA PopStack ==
  ASSUME NEW ctl \in Seq(Activation), ctl # <<>>, NEW fs, Stack(ctl, fs)
  PROVE  LET c == SubSeq(ctl, 1, Len(ctl) - 1)
         IN  /\ c \in Seq(Activation) /\ Len(c) = Len(ctl) - 1 /\ Stack(c, fs)
             /\ \A i \in 1..Len(ctl) - 1 : c[i] = ctl[i]
<1> DEFINE c == SubSeq(ctl, 1, Len(ctl) - 1)
<1>1. PICK n \in Nat : n + 1 = Len(ctl)
  BY Len(ctl) \in Nat \ {0}
<1>2. c \in Seq(Activation) /\ Len(c) = n /\ \A i \in 1..n : c[i] = ctl[i]
  BY <1>1
<1> HIDE DEF c
<1>3. Stack(c, fs)
  <2>1. /\ 1..n \subseteq 1..(n + 1) /\ 1..(n - 1) \subseteq 1..n /\ 1..(n - 2) \subseteq 1..(n - 1)
        /\ (n + 1) - 1 = n /\ (n + 1) - 2 = n - 1
    OBVIOUS
  <2>2. \A i \in 1..(n - 1) : c[i] = ctl[i] /\ c[i + 1] = ctl[i + 1] /\ i \in 1..n
    BY <1>2
  <2>3. c # <<>> => 1 \in 1..n /\ ctl # <<>>
    BY <1>2
  <2>4. /\ \A i \in 1..n : /\ Link(ctl[i], ctl[i + 1])
                           /\ Called(ctl[i], ctl[i + 1])
                                => C!IsAt(fs[ctl[i].frame], CallOps(ctl[i], ctl[i + 1]))
        /\ \A i \in 1..(n - 1) : ctl[i].kind # "native"
    BY <1>1, <2>1 DEF Stack
  <2>5. \A i \in 1..(n - 1) :
          /\ Link(c[i], c[i + 1])
          /\ Called(c[i], c[i + 1]) => C!IsAt(fs[c[i].frame], CallOps(c[i], c[i + 1]))
    BY <2>2, <2>4
  <2>6. \A i, j \in 1..n : i <= j => /\ c[i].frame <= c[j].frame
                                     /\ c[i].kind = "native" => c[j].kind = "native"
    BY <1>1, <1>2, <2>1 DEF Stack
  <2>7. \A i \in 1..n : c[i].site # 0 => /\ c[i].kind \in Loops \cup {"native"}
                                         /\ c[i].site = fs[c[i].frame].pc
    BY <1>1, <1>2, <2>1 DEF Stack
  <2>8. c # <<>> => c[1].kind \in {"compiled", "guarded"} /\ c[1].frame = 1
    BY <1>2, <2>3 DEF Stack
  <2>9. \A i \in 1..(n - 2) : c[i].kind # "native"
    BY <1>2, <2>1, <2>4
  <2> QED
    BY <1>2, <2>5, <2>6, <2>7, <2>8, <2>9 DEF Stack
<1> QED
  BY <1>1, <1>2, <1>3 DEF c

\* What becomes of the last activation's note of where it waits.
LEMMA SiteSet ==
  ASSUME NEW ctl \in Seq(Activation), ctl # <<>>, NEW s \in Nat
  PROVE  /\ [ctl EXCEPT ![Len(ctl)].site = s] \in Seq(Activation)
         /\ Len([ctl EXCEPT ![Len(ctl)].site = s]) = Len(ctl)
         /\ [ctl EXCEPT ![Len(ctl)].site = s][Len(ctl)].kind = ctl[Len(ctl)].kind
         /\ [ctl EXCEPT ![Len(ctl)].site = s][Len(ctl)].frame = ctl[Len(ctl)].frame
         /\ [ctl EXCEPT ![Len(ctl)].site = s][Len(ctl)].site = s
         /\ \A i \in 1..Len(ctl) :
              i # Len(ctl) => [ctl EXCEPT ![Len(ctl)].site = s][i] = ctl[i]
<1> DEFINE c == [ctl EXCEPT ![Len(ctl)].site = s]
<1>1. PICK n \in Nat : n = Len(ctl) /\ n \in 1..n
  OBVIOUS
<1>2. PICK a \in Activation : a = ctl[n]
  BY <1>1
<1>3. PICK b \in Activation : /\ b = [a EXCEPT !.site = s] /\ b.site = s
                              /\ b.kind = a.kind /\ b.frame = a.frame
  <2>1. [a EXCEPT !.site = s] = [kind |-> a.kind, frame |-> a.frame, site |-> s]
    BY DEF Activation
  <2>2. [kind |-> a.kind, frame |-> a.frame, site |-> s] \in Activation
    BY DEF Activation
  <2> QED
    BY <2>1, <2>2
<1>4. c = [ctl EXCEPT ![n] = b]
  BY <1>1, <1>2, <1>3
<1> HIDE DEF c
<1>5. /\ c \in Seq(Activation) /\ Len(c) = n /\ c[n] = b
      /\ \A i \in 1..n : i # n => c[i] = ctl[i]
  BY <1>1, <1>4
<1>6. /\ c \in Seq(Activation) /\ Len(c) = Len(ctl)
      /\ c[Len(ctl)].kind = ctl[Len(ctl)].kind /\ c[Len(ctl)].frame = ctl[Len(ctl)].frame
      /\ c[Len(ctl)].site = s
      /\ \A i \in 1..Len(ctl) : i # Len(ctl) => c[i] = ctl[i]
  BY <1>1, <1>2, <1>3, <1>5
<1> QED
  BY <1>6 DEF c

\* The last activation may note where it waits, or go on.
LEMMA SiteStack ==
  ASSUME NEW ctl \in Seq(Activation), ctl # <<>>, NEW fs, Stack(ctl, fs), NEW s \in Nat,
         s # 0 => /\ ctl[Len(ctl)].kind \in Loops \cup {"native"}
                  /\ s = fs[ctl[Len(ctl)].frame].pc,
         NEW c \in Seq(Activation), Len(c) = Len(ctl),
         c[Len(ctl)].kind = ctl[Len(ctl)].kind, c[Len(ctl)].frame = ctl[Len(ctl)].frame,
         c[Len(ctl)].site = s, \A i \in 1..Len(ctl) : i # Len(ctl) => c[i] = ctl[i]
  PROVE  Stack(c, fs)
<1>1. PICK n \in Nat : n = Len(ctl) /\ n \in 1..n
  OBVIOUS
<1>2. PICK a \in Activation : a = ctl[n]
  BY <1>1
<1>3. PICK b \in Activation : b = c[n] /\ b.site = s /\ b.kind = a.kind /\ b.frame = a.frame
  BY <1>1, <1>2
<1>5. /\ c \in Seq(Activation) /\ Len(c) = n /\ c[n] = b
      /\ \A i \in 1..n : i # n => c[i] = ctl[i]
  BY <1>1, <1>3
<1>6. \A i \in 1..n : c[i].kind = ctl[i].kind /\ c[i].frame = ctl[i].frame
  BY <1>2, <1>3, <1>5
<1>7. \A i \in 1..(n - 1) : i \in 1..n /\ i + 1 \in 1..n /\ c[i] = ctl[i]
  BY <1>5
<1>8. ASSUME NEW i \in 1..(n - 1)
      PROVE  /\ Link(c[i], c[i + 1])
             /\ Called(c[i], c[i + 1]) => C!IsAt(fs[c[i].frame], CallOps(c[i], c[i + 1]))
  <2>1. /\ Link(ctl[i], ctl[i + 1])
        /\ Called(ctl[i], ctl[i + 1]) => C!IsAt(fs[ctl[i].frame], CallOps(ctl[i], ctl[i + 1]))
    BY <1>1 DEF Stack
  <2>2. c[i] = ctl[i] /\ c[i + 1].kind = ctl[i + 1].kind /\ c[i + 1].frame = ctl[i + 1].frame
    BY <1>6, <1>7
  <2> QED
    BY <2>1, <2>2 DEF Link, Called, CallOps
<1>9. \A i \in 1..n : c[i].site # 0 => /\ c[i].kind \in Loops \cup {"native"}
                                       /\ c[i].site = fs[c[i].frame].pc
  <2>1. ASSUME NEW i \in 1..n, i # n, c[i].site # 0
        PROVE  c[i].kind \in Loops \cup {"native"} /\ c[i].site = fs[c[i].frame].pc
    <3>1. c[i] = ctl[i]
      BY <1>5, <2>1
    <3> QED
      BY <1>1, <2>1, <3>1 DEF Stack
  <2>2. c[n].site # 0 => /\ c[n].kind \in Loops \cup {"native"}
                         /\ c[n].site = fs[c[n].frame].pc
    BY <1>1, <1>2, <1>3, <1>5
  <2> QED
    BY <2>1, <2>2
<1>10. \A i, j \in 1..n : i <= j => /\ c[i].frame <= c[j].frame
                                    /\ c[i].kind = "native" => c[j].kind = "native"
  BY <1>1, <1>6 DEF Stack
<1>11. c[1].kind \in {"compiled", "guarded"} /\ c[1].frame = 1 /\ c # <<>>
  BY <1>1, <1>5, <1>6 DEF Stack
<1>12. \A i \in 1..(n - 2) : c[i].kind # "native"
  BY <1>1, <1>6 DEF Stack
<1>13. Stack(c, fs)
  BY <1>5, <1>8, <1>9, <1>10, <1>11, <1>12 DEF Stack
<1> QED
  BY <1>13

\* The activations below the one that runs stand at frames below its own, unless
\* they have lent it theirs.
LEMMA CallersBelow ==
  ASSUME NEW ctl \in Seq(Activation), NEW fs, Stack(ctl, fs), NEW i \in 1..Len(ctl) - 1,
         ctl[Len(ctl)].kind # "host", Called(ctl[i], ctl[i + 1])
  PROVE  ctl[i].frame < ctl[Len(ctl)].frame
<1>1. PICK n \in Nat : n = Len(ctl) /\ n \in 1..n /\ i \in 1..n /\ i + 1 \in 1..n
  OBVIOUS
<1>2. \A j \in 1..n : ctl[j] \in Activation /\ ctl[j].frame \in Nat
  BY <1>1, ActivationFrame
<1>3. \A j \in 1..n : ctl[j].frame <= ctl[n].frame
  BY <1>1 DEF Stack
<1>4. \A j \in 1..(n - 1) : Link(ctl[j], ctl[j + 1])
  BY <1>1 DEF Stack
<1>5. CASE ctl[i + 1].frame # ctl[i].frame
  <2>1. ctl[i + 1].frame = ctl[i].frame + 1
    BY <1>1, <1>4, <1>5 DEF Link
  <2> QED
    BY <1>1, <1>2, <1>3, <2>1
<1>6. CASE ctl[i + 1].frame = ctl[i].frame
  <2>1. ctl[i + 1].kind = "host"
    BY <1>6 DEF Called
  <2>2. i + 1 \in 1..(n - 1) /\ (i + 1) + 1 \in 1..n
    <3>1. i + 1 # n
      BY <1>1, <2>1
    <3> QED
      BY <1>1, <3>1
  <2>3. Link(ctl[i + 1], ctl[(i + 1) + 1])
    BY <1>4, <2>2
  <2>4. PICK x \in Activation, y \in Activation : x = ctl[i + 1] /\ y = ctl[(i + 1) + 1]
    BY <1>1, <1>2, <2>2
  <2>5. y.frame = x.frame + 1
    BY <2>1, <2>3, <2>4 DEF Link, Loops
  <2> QED
    BY <1>1, <1>2, <1>3, <1>6, <2>2, <2>4, <2>5
<1> QED
  BY <1>5, <1>6

\* The frame of the last activation may change, and what lies above it.
LEMMA FrameStack ==
  ASSUME NEW ctl \in Seq(Activation), ctl # <<>>, NEW fs, Stack(ctl, fs), NEW fs2,
         ctl[Len(ctl)].kind # "host", ctl[Len(ctl)].site = 0,
         \A f \in 1..ctl[Len(ctl)].frame - 1 : fs2[f] = fs[f]
  PROVE  Stack(ctl, fs2)
<1>1. PICK n \in Nat : n = Len(ctl) /\ n \in 1..n
  OBVIOUS
<1>2. \A j \in 1..n : ctl[j] \in Activation /\ ctl[j].frame \in Nat /\ ctl[j].frame > 0
  BY <1>1, ActivationFrame
<1>3. ASSUME NEW i \in 1..(n - 1), Called(ctl[i], ctl[i + 1])
      PROVE  fs2[ctl[i].frame] = fs[ctl[i].frame]
  <2>1. ctl[i].frame < ctl[n].frame
    BY <1>1, <1>3, CallersBelow
  <2>2. i \in 1..n
    OBVIOUS
  <2>3. PICK f \in Nat, g \in Nat : f = ctl[i].frame /\ g = ctl[n].frame /\ f > 0
    BY <1>1, <1>2, <2>2
  <2>4. f \in 1..g - 1
    BY <2>1, <2>3
  <2> QED
    BY <1>1, <2>3, <2>4
<1>4. ASSUME NEW i \in 1..n, ctl[i].site # 0
      PROVE  ctl[i].site = fs2[ctl[i].frame].pc
  <2>1. i \in 1..(n - 1) /\ i + 1 \in 1..n
    BY <1>1, <1>4
  <2>2. Link(ctl[i], ctl[i + 1]) /\ ctl[i].kind \in Loops \cup {"native"}
    BY <1>1, <1>4, <2>1 DEF Stack
  <2>3. PICK x \in Activation, y \in Activation : x = ctl[i] /\ y = ctl[i + 1]
    BY <1>2, <2>1
  <2>4. y.kind = "host" \/ y.frame = x.frame + 1
    BY <1>4, <2>2, <2>3 DEF Link, Loops, Suspended, CanCall
  <2>5. x.frame + 1 # x.frame
    BY DEF Activation
  <2>6. Called(ctl[i], ctl[i + 1])
    BY <2>3, <2>4, <2>5 DEF Called
  <2>7. fs2[ctl[i].frame] = fs[ctl[i].frame]
    BY <1>3, <2>1, <2>6
  <2> QED
    BY <1>1, <1>4, <2>7 DEF Stack
<1> QED
  BY <1>1, <1>3, <1>4 DEF Stack

\* Frames above those of the control stack may come and go.
LEMMA SameFrames ==
  ASSUME NEW ctl \in Seq(Activation), NEW fs, Stack(ctl, fs), NEW fs2,
         \A f \in 1..Height(ctl) : fs2[f] = fs[f]
  PROVE  Stack(ctl, fs2)
<1>1. PICK n \in Nat : n = Len(ctl)
  OBVIOUS
<1>2. \A j \in 1..n : ctl[j] \in Activation /\ ctl[j].frame \in Nat /\ ctl[j].frame > 0
  BY <1>1, ActivationFrame
<1>3. ASSUME NEW i \in 1..n PROVE fs2[ctl[i].frame] = fs[ctl[i].frame]
  <2>1. n \in 1..n /\ ctl # <<>>
    BY <1>1
  <2>2. ctl[i].frame <= ctl[n].frame /\ Height(ctl) = ctl[n].frame
    BY <1>1, <2>1 DEF Stack, Height
  <2>3. ctl[i].frame \in 1..Height(ctl)
    BY <1>2, <2>1, <2>2
  <2> QED
    BY <2>3
<1>4. \A i \in 1..(n - 1) : i \in 1..n
  OBVIOUS
<1> QED
  BY <1>1, <1>3, <1>4 DEF Stack

\* If the last activation is not native, none is.
LEMMA NoNatives ==
  ASSUME NEW ctl \in Seq(Activation), NEW fs, Stack(ctl, fs),
         ctl # <<>> => ctl[Len(ctl)].kind # "native"
  PROVE  \A i \in 1..Len(ctl) : ctl[i].kind # "native"
<1> SUFFICES ASSUME NEW i \in 1..Len(ctl) PROVE ctl[i].kind # "native"
  OBVIOUS
<1>1. Len(ctl) \in 1..Len(ctl) /\ i <= Len(ctl) /\ ctl # <<>>
  OBVIOUS
<1> QED
  BY <1>1 DEF Stack

-----------------------------------------------------------------------------
(* Frames                                                                  *)

\* A frame is changed, the others are as they were.
LEMMA FrameSet ==
  ASSUME NEW fs \in Seq(C!Frame), NEW h \in 1..Len(fs), NEW x \in C!Frame
  PROVE  /\ [fs EXCEPT ![h] = x] \in Seq(C!Frame)
         /\ Len([fs EXCEPT ![h] = x]) = Len(fs)
         /\ [fs EXCEPT ![h] = x][h] = x
         /\ \A f \in 1..h - 1 : [fs EXCEPT ![h] = x][f] = fs[f]
OBVIOUS

\* Wherever a frame goes on, it is a frame.
LEMMA FrameMoves ==
  ASSUME program \in Programs, NEW x \in C!Frame
  PROVE  /\ C!Past(x) \in C!Frame /\ C!Ended(x) \in C!Frame /\ C!Resumed(x) \in C!Frame
         /\ C!AtEnd(C!Ended(x))
         /\ \A s \in Nat \ {0} : [x EXCEPT !.pc = s] \in C!Frame
         /\ \A g \in Functions : C!Start(g) \in C!Frame
<1>1. program[x.fn] \in Seq(C!Instruction)
  BY ProgramTyped DEF C!Frame
<1>2. Len(program[x.fn]) \in Nat
  BY <1>1
<1>3. x.pc + 1 \in Nat \ {0} /\ Len(program[x.fn]) + 1 \in Nat \ {0}
  BY <1>2 DEF C!Frame
<1>4. \A s : [x EXCEPT !.pc = s] = [fn |-> x.fn, pc |-> s]
  BY DEF C!Frame
<1>5. \A s \in Nat \ {0} : [x EXCEPT !.pc = s] \in C!Frame
  BY <1>4 DEF C!Frame
<1>6. C!Past(x) \in C!Frame /\ C!Ended(x) \in C!Frame
  BY <1>3, <1>5 DEF C!Past, C!Ended, C!Code
<1>7. C!Resumed(x) \in C!Frame
  BY <1>6 DEF C!Resumed
<1>8. C!AtEnd(C!Ended(x))
  <2>1. C!Ended(x) = [fn |-> x.fn, pc |-> Len(program[x.fn]) + 1]
    BY <1>4 DEF C!Ended, C!Code
  <2> QED
    BY <1>2, <2>1 DEF C!AtEnd, C!Code
<1>9. \A g \in Functions : C!Start(g) \in C!Frame
  BY DEF C!Start, C!Frame
<1> QED
  BY <1>5, <1>6, <1>7, <1>8, <1>9

\* What an instruction a frame stands at is.
LEMMA InstructionAt ==
  ASSUME program \in Programs, NEW x \in C!Frame, ~C!AtEnd(x)
  PROVE  /\ x.pc \in DOMAIN program[x.fn]
         /\ program[x.fn][x.pc].op \in C!Ops /\ program[x.fn][x.pc].callee \in Functions
<1>1. program[x.fn] \in Seq(C!Instruction) /\ x.pc \in Nat \ {0}
  BY ProgramTyped DEF C!Frame
<1>2. x.pc \in 1..Len(program[x.fn])
  BY <1>1 DEF C!AtEnd, C!Code
<1>3. program[x.fn][x.pc] \in C!Instruction
  BY <1>1, <1>2
<1> QED
  BY <1>1, <1>2, <1>3 DEF C!Instruction

-----------------------------------------------------------------------------
(* The thread as control is passed on                                      *)

\* The last activation moves in its frame, and opens or closes upvalues there if
\* no native activation has lent it one.
LEMMA MoveCore ==
  ASSUME NEW ctl, NEW fs, NEW opened, Core(ctl, fs, opened), ctl # <<>>,
         ctl[Len(ctl)].kind # "host", ctl[Len(ctl)].site = 0,
         NEW gs \in Seq(C!Frame), Len(gs) <= MaxFrames,
         \A f \in 1..Height(ctl) - 1 : gs[f] = fs[f],
         NEW opened2, opened2 \subseteq 1..Len(gs),
         opened2 \subseteq opened \/ ctl[Len(ctl)].kind # "native"
  PROVE  Core(ctl, gs, opened2)
<1>1. PICK n \in Nat : n = Len(ctl) /\ n \in 1..n
  BY DEF Core
<1>2. ctl \in Seq(Activation) /\ Stack(ctl, fs)
  BY DEF Core
<1>3. Stack(ctl, gs)
  <2>1. Height(ctl) = ctl[Len(ctl)].frame
    BY DEF Height
  <2>2. \A f \in 1..ctl[Len(ctl)].frame - 1 : gs[f] = fs[f]
    BY <2>1
  <2> QED
    BY <1>2, <2>2, FrameStack
<1>4. \A i \in 1..Len(ctl) - 1 : ctl[i].kind = "native" => ctl[i + 1].frame \notin opened2
  <2>1. CASE opened2 \subseteq opened
    BY <2>1 DEF Core
  <2>2. CASE ctl[Len(ctl)].kind # "native"
    <3>1. \A i \in 1..n : ctl[i].kind # "native"
      BY <1>1, <1>2, <2>2, NoNatives
    <3> QED
      BY <1>1, <3>1
  <2> QED
    BY <2>1, <2>2
<1> QED
  BY <1>2, <1>3, <1>4 DEF Core

\* The Go loop that runs enters its frame's code, wherever it is told to.
LEMMA LoopEnters ==
  ASSUME NEW ctl, NEW fs, NEW opened, Core(ctl, fs, opened), ctl # <<>>,
         Height(ctl) = Len(fs), ctl[Len(ctl)].kind \in Loops,
         NEW x \in C!Frame, NEW opened2, opened2 \subseteq 1..Len(fs)
  PROVE  LET h == ctl[Len(ctl)].frame
             c == Append([ctl EXCEPT ![Len(ctl)].site = 0], Act("native", h))
             gs == [fs EXCEPT ![h] = x]
         IN  /\ Core(c, gs, opened2) /\ Len(gs) = Height(c)
             /\ c # <<>> /\ c[Len(c)] = Act("native", h)
<1>1. PICK n \in Nat : n = Len(ctl) /\ n \in 1..n
  BY DEF Core
<1>2. PICK h \in Nat : h = Height(ctl) /\ h = ctl[n].frame /\ h \in 1..Len(fs)
  BY <1>1, ActivationFrame DEF Core, Height
<1>3. ctl \in Seq(Activation) /\ Stack(ctl, fs)
  BY DEF Core
<1> DEFINE c0 == [ctl EXCEPT ![Len(ctl)].site = 0]
           gs == [fs EXCEPT ![h] = x]
           a == Act("native", h)
           c == Append(c0, a)
<1>4. /\ c0 \in Seq(Activation) /\ Len(c0) = Len(ctl)
      /\ c0[Len(ctl)].kind = ctl[Len(ctl)].kind /\ c0[Len(ctl)].frame = ctl[Len(ctl)].frame
      /\ c0[Len(ctl)].site = 0
      /\ \A i \in 1..Len(ctl) : i # Len(ctl) => c0[i] = ctl[i]
  <2>1. ctl # <<>> /\ 0 \in Nat
    BY <1>1
  <2> QED
    BY <1>3, <2>1, SiteSet
<1> HIDE DEF c0
<1>5. Stack(c0, fs)
  BY <1>3, <1>4, SiteStack
<1>7. c0[n].kind \in Loops /\ c0[n].frame = h /\ c0[n].site = 0 /\ Len(c0) = n
  BY <1>1, <1>2, <1>4
<1>8. "host" \notin Loops /\ "native" \notin Loops
  BY DEF Loops
<1>9. \A i \in 1..n : c0[i].kind # "native"
  <2>1. c0 # <<>> /\ c0[Len(c0)].kind # "native"
    BY <1>1, <1>4, <1>7, <1>8
  <2> QED
    BY <1>4, <1>5, <1>7, <2>1, NoNatives
<1>10. Core(c0, fs, opened)
  <2>1. \A i \in 1..Len(c0) - 1 : i \in 1..n
    BY <1>7
  <2> QED
    BY <1>4, <1>5, <1>9, <2>1 DEF Core
<1>11. Core(c0, gs, opened2) /\ Len(gs) = Len(fs)
  <2>1. /\ c0 # <<>> /\ Height(c0) = h /\ c0[Len(c0)].kind # "host"
        /\ c0[Len(c0)].kind # "native" /\ c0[Len(c0)].site = 0
    BY <1>1, <1>4, <1>7, <1>8 DEF Height
  <2>a. fs \in Seq(C!Frame) /\ Len(fs) <= MaxFrames
    BY DEF Core
  <2>b. /\ gs \in Seq(C!Frame) /\ Len(gs) = Len(fs)
        /\ \A f \in 1..h - 1 : gs[f] = fs[f]
    <3>1. h \in 1..Len(fs)
      BY <1>2
    <3> QED
      BY <2>a, <3>1, FrameSet
  <2> HIDE DEF gs
  <2>2. /\ gs \in Seq(C!Frame) /\ Len(gs) = Len(fs) /\ Len(gs) <= MaxFrames
        /\ \A f \in 1..Height(c0) - 1 : gs[f] = fs[f]
    BY <2>1, <2>a, <2>b
  <2>3. opened2 \subseteq 1..Len(gs)
    BY <2>2
  <2> QED
    BY <1>10, <2>1, <2>2, <2>3, MoveCore
<1>12. a \in Activation /\ a.kind = "native" /\ a.frame = h /\ a.site = 0
  <2>1. h \in 1..MaxFrames
    BY <1>1, <1>2, <1>3, ActivationFrame
  <2> QED
    BY <2>1 DEF Act, Activation
<1> HIDE DEF a, gs
<1>13. c \in Seq(Activation) /\ Stack(c, gs)
  <2>1. c0 # <<>> /\ Len(c0) = n /\ c0[Len(c0)] = c0[n]
    BY <1>1, <1>7
  <2>2. Link(c0[n], a)
    BY <1>7, <1>12 DEF Link
  <2>3. ~Called(c0[n], a)
    BY <1>7, <1>12 DEF Called
  <2>4. Stack(c0, gs)
    BY <1>11 DEF Core
  <2>5. \A i \in 1..Len(c0) - 1 : c0[i].kind # "native"
    BY <1>7, <1>9
  <2> QED
    BY <1>4, <1>12, <2>1, <2>2, <2>3, <2>4, <2>5, PushStack
<1>14. Len(c) = n + 1 /\ c[n + 1] = a /\ \A i \in 1..n : c[i] = c0[i]
  BY <1>4, <1>7
<1> HIDE DEF c
<1>15. Core(c, gs, opened2)
  <2>1. \A i \in 1..Len(c) - 1 : c[i].kind # "native"
    <3>1. \A i \in 1..Len(c) - 1 : i \in 1..n
      BY <1>14
    <3> QED
      BY <1>9, <1>14, <3>1
  <2> QED
    BY <1>11, <1>13, <2>1 DEF Core
<1>16. Len(gs) = Height(c) /\ c # <<>> /\ c[Len(c)] = a
  BY <1>2, <1>11, <1>12, <1>14 DEF Height
<1> QED
  BY <1>1, <1>2, <1>15, <1>16 DEF c, c0, gs, a

\* The last activation leaves; of the frames, those of the others stay.
LEMMA PopCore ==
  ASSUME NEW ctl, NEW fs, NEW opened, Core(ctl, fs, opened), ctl # <<>>,
         NEW c, c = SubSeq(ctl, 1, Len(ctl) - 1),
         NEW gs \in Seq(C!Frame), Len(gs) <= MaxFrames,
         \A f \in 1..Height(c) : gs[f] = fs[f],
         NEW opened2, opened2 \subseteq opened, opened2 \subseteq 1..Len(gs)
  PROVE  Core(c, gs, opened2)
<1>1. PICK n \in Nat : n + 1 = Len(ctl)
  BY Len(ctl) \in Nat \ {0} DEF Core
<1>2. ctl \in Seq(Activation) /\ Stack(ctl, fs)
  BY DEF Core
<1>3. /\ c \in Seq(Activation) /\ Len(c) = n /\ Stack(c, fs)
      /\ \A i \in 1..n : c[i] = ctl[i]
  BY <1>1, <1>2, PopStack
<1>4. Stack(c, gs)
  <2>1. c \in Seq(Activation) /\ Stack(c, fs)
    BY <1>3
  <2>2. \A f \in 1..Height(c) : gs[f] = fs[f]
    OBVIOUS
  <2> QED
    BY ONLY <2>1, <2>2, SameFrames
<1>5. \A i \in 1..Len(c) - 1 : c[i].kind = "native" => c[i + 1].frame \notin opened2
  <2>1. \A i \in 1..Len(ctl) - 1 : ctl[i].kind = "native" => ctl[i + 1].frame \notin opened
    BY DEF Core
  <2>2. ASSUME NEW i \in 1..Len(c) - 1
        PROVE  i \in 1..Len(ctl) - 1 /\ c[i] = ctl[i] /\ c[i + 1] = ctl[i + 1]
    <3>1. i \in 1..n /\ i + 1 \in 1..n /\ i \in 1..Len(ctl) - 1
      BY <1>1, <1>3
    <3> QED
      BY <1>3, <3>1
  <2> QED
    BY <2>1, <2>2
<1> QED
  BY <1>3, <1>4, <1>5 DEF Core

\* An activation with a frame of its own stands one above its caller, another at
\* its caller's frame; only native activations have a native caller.
LEMMA HeightBelow ==
  ASSUME NEW ctl \in Seq(Activation), NEW fs, Stack(ctl, fs), ctl # <<>>,
         NEW c, c = SubSeq(ctl, 1, Len(ctl) - 1)
  PROVE  /\ c \in Seq(Activation) /\ Stack(c, fs) /\ Len(c) = Len(ctl) - 1
         /\ \A i \in 1..Len(c) : c[i] = ctl[i]
         /\ Height(ctl) \in Nat \ {0} /\ Height(c) \in Nat
         /\ ctl[Len(ctl)].kind \in {"compiled", "nested", "interp", "guarded"}
              => Height(c) = Height(ctl) - 1
         /\ ctl[Len(ctl)].kind \in {"deopt", "host"} => c # <<>> /\ Height(c) = Height(ctl)
         /\ c # <<>> => /\ Link(c[Len(c)], ctl[Len(ctl)])
                        /\ Called(c[Len(c)], ctl[Len(ctl)])
                             => C!IsAt(fs[Height(c)], CallOps(c[Len(c)], ctl[Len(ctl)]))
<1>1. PICK n \in Nat : n + 1 = Len(ctl)
  BY Len(ctl) \in Nat \ {0}
<1>2. /\ c \in Seq(Activation) /\ Len(c) = n /\ Stack(c, fs)
      /\ \A i \in 1..n : c[i] = ctl[i]
  BY <1>1, PopStack
<1>3. PICK b \in Activation : b = ctl[n + 1] /\ b.frame \in Nat /\ b.frame > 0
  BY <1>1, ActivationFrame
<1>4. CASE n = 0
  <2>1. c = <<>> /\ Height(c) = 0
    BY <1>2, <1>4 DEF Height
  <2>2. n + 1 = 1
    BY <1>4
  <2>3. b.kind \in {"compiled", "guarded"} /\ b.frame = 1
    BY <1>3, <2>2 DEF Stack
  <2> QED
    BY <1>1, <1>2, <1>3, <1>4, <2>1, <2>3 DEF Height
<1>5. CASE n # 0
  <2>1. n \in 1..n /\ c # <<>> /\ n \in 1..Len(ctl) - 1
    BY <1>1, <1>2, <1>5
  <2>2. PICK a \in Activation : a = c[n] /\ a = ctl[n] /\ a.frame \in Nat /\ Height(c) = a.frame
    BY <1>2, <2>1, ActivationFrame DEF Height
  <2>3. Link(a, b)
    BY <1>1, <1>3, <2>1, <2>2 DEF Stack
  <2>4. Called(a, b) => C!IsAt(fs[a.frame], CallOps(a, b))
    BY <1>1, <1>3, <2>1, <2>2 DEF Stack
  <2>5. b.kind \in {"compiled", "nested", "interp", "guarded"} => b.frame = a.frame + 1
    BY <2>3 DEF Link
  <2>6. b.kind \in {"deopt", "host"} => b.frame = a.frame
    BY <2>3 DEF Link
  <2>7. Height(ctl) = b.frame /\ ctl[Len(ctl)] = b /\ c[Len(c)] = a
    BY <1>1, <1>2, <1>3, <2>2 DEF Height
  <2>8. /\ Height(ctl) \in Nat \ {0} /\ Height(c) \in Nat
        /\ b.kind \in {"compiled", "nested", "interp", "guarded"} => Height(c) = Height(ctl) - 1
        /\ b.kind \in {"deopt", "host"} => Height(c) = Height(ctl)
    <3>1. PICK p \in Nat, q \in Nat : p = a.frame /\ q = b.frame /\ q > 0
      BY <1>3, <2>2
    <3>2. Height(c) = p /\ Height(ctl) = q
      BY <2>2, <2>7, <3>1
    <3>3. b.kind \in {"compiled", "nested", "interp", "guarded"} => p = q - 1
      <4>1. q = p + 1 => p = q - 1
        BY <3>1
      <4> QED
        BY <2>5, <3>1, <4>1
    <3> QED
      BY <2>6, <3>1, <3>2, <3>3
  <2>9. /\ c \in Seq(Activation) /\ Stack(c, fs) /\ Len(c) = Len(ctl) - 1
        /\ \A i \in 1..Len(c) : c[i] = ctl[i]
    BY <1>1, <1>2
  <2> QED
    BY <2>1, <2>2, <2>3, <2>4, <2>7, <2>8, <2>9
<1> QED
  BY <1>4, <1>5

\* The last activation calls another, or lends it its frame.
LEMMA PushCore ==
  ASSUME NEW ctl, NEW fs, NEW opened, Core(ctl, fs, opened),
         NEW a \in Activation, a.site = 0,
         ctl = <<>> => a.kind \in {"compiled", "guarded"} /\ a.frame = 1,
         ctl # <<>> => /\ Link(ctl[Len(ctl)], a)
                       /\ Called(ctl[Len(ctl)], a)
                            => C!IsAt(fs[ctl[Len(ctl)].frame], CallOps(ctl[Len(ctl)], a)),
         \A i \in 1..Len(ctl) : ctl[i].kind # "native",
         NEW gs \in Seq(C!Frame), Len(fs) <= Len(gs), Len(gs) <= MaxFrames,
         Height(ctl) <= Len(fs), \A f \in 1..Len(fs) : gs[f] = fs[f]
  PROVE  /\ Core(Append(ctl, a), gs, opened)
         /\ Append(ctl, a) # <<>> /\ Append(ctl, a)[Len(Append(ctl, a))] = a
         /\ Height(Append(ctl, a)) = a.frame
<1> DEFINE c == Append(ctl, a)
<1>1. PICK n \in Nat : n = Len(ctl)
  BY DEF Core
<1>2. ctl \in Seq(Activation) /\ Stack(ctl, fs)
  BY DEF Core
<1>3. Stack(ctl, gs)
  <2>1. \A f \in 1..Height(ctl) : gs[f] = fs[f]
    <3>1. Height(ctl) \in Nat /\ Len(fs) \in Nat
      <4>1. ctl # <<>> => Len(ctl) \in 1..Len(ctl)
        BY <1>2
      <4> QED
        BY <1>2, <4>1, ActivationFrame DEF Height, Core
    <3> QED
      BY <3>1
  <2> QED
    BY <1>2, <2>1, SameFrames
<1>4. \A i \in 1..Len(ctl) - 1 : ctl[i].kind # "native"
  BY <1>1
<1>5. ASSUME ctl # <<>>, Called(ctl[Len(ctl)], a)
      PROVE  C!IsAt(gs[ctl[Len(ctl)].frame], CallOps(ctl[Len(ctl)], a))
  <2>1. Len(ctl) \in 1..Len(ctl)
    BY <1>2, <1>5
  <2>2. ctl[Len(ctl)].frame \in Nat /\ ctl[Len(ctl)].frame > 0
    BY <1>2, <2>1, ActivationFrame
  <2>3. ctl[Len(ctl)].frame \in 1..Len(fs)
    <3>1. Len(fs) \in Nat
      BY DEF Core
    <3> QED
      BY <1>5, <2>2, <3>1 DEF Height
  <2> QED
    BY <1>5, <2>3
<1>6. c \in Seq(Activation) /\ Stack(c, gs)
  BY <1>2, <1>3, <1>4, <1>5, PushStack
<1>7. /\ Len(c) = n + 1 /\ c[n + 1] = a /\ \A i \in 1..n : c[i] = ctl[i]
  BY <1>1, <1>2
<1> HIDE DEF c
<1>8. opened \subseteq 1..Len(gs)
  BY DEF Core
<1>9. \A i \in 1..Len(c) - 1 : c[i].kind # "native"
  BY <1>1, <1>7
<1>10. Core(c, gs, opened)
  BY <1>6, <1>8, <1>9 DEF Core
<1>11. c # <<>> /\ c[Len(c)] = a /\ Height(c) = a.frame
  BY <1>7 DEF Height
<1> QED
  BY <1>10, <1>11 DEF c

-----------------------------------------------------------------------------
(* The invariant before and after a step                                   *)

\* The fields of the exits there are none and all of.
LEMMA ExitFields ==
  /\ NoExit.status = "none" /\ NoExit.flags = {} /\ NoExit \in Exit
  /\ Ok.status = "ok" /\ Ok.flags = {} /\ Ok \in Exit
BY DEF NoExit, Ok, Exit

\* The exits there are besides StubExit: a status alone, and what is left of a
\* native callee's.
StatusExit(t, s) == [NoExit EXCEPT !.status = t, !.site = s]
InnerExit(t, s, u) == [NoExit EXCEPT !.status = t, !.site = s, !.stub = u]

\* How exits are put together.
LEMMA ExitMade ==
  ASSUME NEW t, NEW s, NEW u, NEW fl
  PROVE  /\ StatusExit(t, s) = [status |-> t, stub |-> "none", site |-> s, flags |-> {},
                                inner |-> 0, innerStub |-> "none"]
         /\ InnerExit(t, s, u) = [status |-> t, stub |-> u, site |-> s, flags |-> {},
                                  inner |-> 0, innerStub |-> "none"]
         /\ StubExit(s, u, fl) = [status |-> "stub", stub |-> u, site |-> s, flags |-> fl,
                                  inner |-> 0, innerStub |-> "none"]
<1> DEFINE e(a, b, c, d) == [status |-> a, stub |-> b, site |-> c, flags |-> d,
                             inner |-> 0, innerStub |-> "none"]
<1>1. ASSUME NEW a, NEW b, NEW c, NEW d
      PROVE  /\ [e(a, b, c, d) EXCEPT !.status = t] = e(t, b, c, d)
             /\ [e(a, b, c, d) EXCEPT !.stub = u] = e(a, u, c, d)
             /\ [e(a, b, c, d) EXCEPT !.site = s] = e(a, b, s, d)
             /\ [e(a, b, c, d) EXCEPT !.flags = fl] = e(a, b, c, fl)
  <2>1. PICK x : x = e(a, b, c, d)
    OBVIOUS
  <2>2. [x EXCEPT !.status = t] = e(t, b, c, d)
    BY <2>1
  <2>3. [x EXCEPT !.stub = u] = e(a, u, c, d)
    BY <2>1
  <2>4. [x EXCEPT !.site = s] = e(a, b, s, d)
    BY <2>1
  <2>5. [x EXCEPT !.flags = fl] = e(a, b, c, fl)
    BY <2>1
  <2> HIDE DEF e
  <2> QED
    BY <2>1, <2>2, <2>3, <2>4, <2>5
<1>2. NoExit = e("none", "none", 0, {})
  BY DEF NoExit
<1>3. /\ StatusExit(t, s) = [[NoExit EXCEPT !.status = t] EXCEPT !.site = s]
      /\ InnerExit(t, s, u) = [[[NoExit EXCEPT !.status = t] EXCEPT !.site = s] EXCEPT !.stub = u]
      /\ StubExit(s, u, fl)
           = [[[[NoExit EXCEPT !.status = "stub"] EXCEPT !.stub = u] EXCEPT !.site = s] EXCEPT !.flags = fl]
  BY Zenon DEF StatusExit, InnerExit, StubExit
<1> HIDE DEF e
<1>4. /\ [[NoExit EXCEPT !.status = t] EXCEPT !.site = s] = e(t, "none", s, {})
      /\ [[[NoExit EXCEPT !.status = t] EXCEPT !.site = s] EXCEPT !.stub = u] = e(t, u, s, {})
  <2>1. /\ [NoExit EXCEPT !.status = t] = e(t, "none", 0, {})
        /\ [e(t, "none", 0, {}) EXCEPT !.site = s] = e(t, "none", s, {})
        /\ [e(t, "none", s, {}) EXCEPT !.stub = u] = e(t, u, s, {})
    BY <1>1, <1>2
  <2> QED
    BY <2>1, Zenon
<1>5. [[[[NoExit EXCEPT !.status = "stub"] EXCEPT !.stub = u] EXCEPT !.site = s] EXCEPT !.flags = fl]
        = e("stub", u, s, fl)
  <2>0. [NoExit EXCEPT !.status = "stub"] = e("stub", "none", 0, {})
    BY <1>2 DEF e
  <2>1. /\ [e("stub", "none", 0, {}) EXCEPT !.stub = u] = e("stub", u, 0, {})
        /\ [e("stub", u, 0, {}) EXCEPT !.site = s] = e("stub", u, s, {})
        /\ [e("stub", u, s, {}) EXCEPT !.flags = fl] = e("stub", u, s, fl)
    BY <1>1
  <2> QED
    BY <2>0, <2>1, Zenon
<1> QED
  BY <1>3, <1>4, <1>5, Zenon DEF e

\* Whatever runs stands at a frame of the thread, its own or the one it was lent;
\* an exit is pending only for a Go loop.
LEMMA Standing ==
  ASSUME NInv
  PROVE  /\ program \in Programs /\ Core(control, frames, open)
         /\ control \in Seq(Activation) /\ frames \in Seq(C!Frame)
         /\ Len(frames) <= MaxFrames /\ open \subseteq 1..Len(frames)
         /\ Stack(control, frames)
         /\ failing => ctx = NoExit
         /\ control = <<>> => ctx = NoExit
         /\ ctx = NoExit => Len(frames) = Height(control)
         /\ "nested" \notin ctx.flags => Len(frames) = Height(control)
         /\ control # <<>> =>
              /\ Len(control) \in 1..Len(control)
              /\ Top \in Activation /\ Top.frame = Height(control)
              /\ Top.frame \in Nat \ {0} /\ Top.frame <= Len(frames)
              /\ frames[Top.frame] \in C!Frame
              /\ Top.kind \notin Loops => ctx = NoExit
<1>1. /\ program \in Programs /\ Core(control, frames, open) /\ ctx \in Exit
      /\ Len(frames) = Height(control) + (IF "nested" \in ctx.flags THEN 1 ELSE 0)
  BY DEF NInv
<1>2. /\ control \in Seq(Activation) /\ frames \in Seq(C!Frame)
      /\ Len(frames) <= MaxFrames /\ open \subseteq 1..Len(frames) /\ Stack(control, frames)
  BY <1>1 DEF Core
<1>3. /\ failing => ctx = NoExit
      /\ control = <<>> => ctx = NoExit
      /\ control # <<>> /\ Top.kind \notin Loops => ctx = NoExit
  BY DEF NInv, ExitSound, TopIs
<1>4. Height(control) \in Nat
  <2>1. control # <<>> => Len(control) \in 1..Len(control)
    BY <1>2
  <2> QED
    BY <1>2, <2>1, ActivationFrame DEF Height
<1>5. "nested" \notin ctx.flags => Len(frames) = Height(control)
  BY <1>1, <1>4
<1>6. ctx = NoExit => Len(frames) = Height(control)
  BY <1>5, ExitFields
<1>7. ASSUME control # <<>>
      PROVE  /\ Len(control) \in 1..Len(control)
             /\ Top \in Activation /\ Top.frame = Height(control)
             /\ Top.frame \in Nat \ {0} /\ Top.frame <= Len(frames)
             /\ frames[Top.frame] \in C!Frame
  <2>1. Len(control) \in 1..Len(control)
    BY <1>2, <1>7
  <2>2. Top \in Activation /\ Top.frame = Height(control) /\ Top.frame \in Nat \ {0}
    BY <1>2, <1>7, <2>1, ActivationFrame DEF Top, Height
  <2>3. Height(control) <= Len(frames)
    BY <1>1, <1>4
  <2>4. Top.frame \in 1..Len(frames)
    BY <1>2, <2>2, <2>3
  <2> QED
    BY <1>2, <2>1, <2>2, <2>3, <2>4
<1> QED
  BY <1>1, <1>2, <1>3, <1>5, <1>6, <1>7

\* The program is never changed, so what it makes of a state is what it makes of
\* the state's variables.
LEMMA CoreNext ==
  ASSUME program' = program, Core(control', frames', open')
  PROVE  Core(control, frames, open)'
BY DEF Core, Stack, C!IsAt, C!AtEnd, C!OpOf, C!Code

\* After a step that leaves no exit pending.
LEMMA CalmInv ==
  ASSUME NInv, program' = program, Core(control', frames', open'),
         Len(frames') = Height(control'), ctx' = NoExit, failing' \in BOOLEAN,
         ~failing' /\ control' # <<>> => control'[Len(control')].site = 0,
         FlagsOK', compiled' \subseteq Supported
  PROVE  NInv'
<1>1. Core(control, frames, open)'
  BY CoreNext
<1>2. ctx'.status = "none" /\ ctx'.flags = {} /\ ctx' \in Exit
  BY ExitFields
<1>3. ExitSound'
  BY <1>2 DEF ExitSound
<1>4. Height(control)' = Height(control')
  BY DEF Height
<1>5. Len(frames') \in Nat
  BY <1>1 DEF Core
<1>6. (Len(frames) = Height(control) + (IF "nested" \in ctx.flags THEN 1 ELSE 0))'
  BY <1>2, <1>4, <1>5
<1> QED
  BY <1>1, <1>2, <1>3, <1>6 DEF NInv, Top

\* After a step that leaves the Go loop with its callee's results.
LEMMA OkInv ==
  ASSUME NInv, program' = program, Core(control', frames', open'),
         Len(frames') = Height(control'), ctx' = Ok, failing' = FALSE,
         control' # <<>>, control'[Len(control')].kind \in Loops,
         control'[Len(control')].site = 0,
         C!AtEnd(frames'[control'[Len(control')].frame]),
         FlagsOK', compiled' \subseteq Supported
  PROVE  NInv'
<1>1. Core(control, frames, open)'
  BY CoreNext
<1>2. ctx'.status = "ok" /\ ctx'.flags = {} /\ ctx' \in Exit
  BY ExitFields
<1>3. (C!AtEnd(frames[Top.frame]))' /\ TopIs(Loops)'
  BY DEF C!AtEnd, C!Code, Top, TopIs
<1>4. Ok' = Ok
  BY DEF Ok, NoExit
<1>5. ExitSound'
  BY <1>2, <1>3, <1>4 DEF ExitSound
<1>6. Height(control)' = Height(control')
  BY DEF Height
<1>7. Len(frames') \in Nat
  BY <1>1 DEF Core
<1>8. (Len(frames) = Height(control) + (IF "nested" \in ctx.flags THEN 1 ELSE 0))'
  BY <1>2, <1>6, <1>7
<1>9. failing' \in BOOLEAN
  OBVIOUS
<1> QED
  BY <1>1, <1>2, <1>5, <1>8, <1>9 DEF NInv, Top

-----------------------------------------------------------------------------
(* The steps                                                               *)

\* Native code or the interpreter moves in its frame.
LEMMA AdvanceStep ==
  ASSUME NInv, NativeAdvance \/ InterpAdvance
  PROVE  NInv'
<1>1. /\ ~failing /\ control # <<>> /\ Top.kind \in {"native"} \cup Interpreters
      /\ Top.kind = "native" => open' = open
      /\ open' \subseteq open \cup {Top.frame}
      /\ frames' = [frames EXCEPT ![Top.frame] = C!Past(frames[Top.frame])]
      /\ UNCHANGED <<program, control, ctx, flags, compiled, failing>>
  BY DEF NativeAdvance, InterpAdvance, InNative, Interpreting, TopIs, SetFrame, Interpreters
<1>2. Top.kind \notin Loops /\ Top.kind # "host"
  BY <1>1 DEF Interpreters, Loops
<1>3. Top.site = 0
  BY <1>1 DEF NInv
<1> DEFINE h == Top.frame
<1>4. /\ Core(control, frames, open) /\ ctx = NoExit /\ frames \in Seq(C!Frame)
      /\ h = Height(control) /\ h \in 1..Len(frames) /\ frames[h] \in C!Frame
      /\ Len(frames) = Height(control) /\ Len(frames) <= MaxFrames
      /\ open \subseteq 1..Len(frames)
  BY <1>1, <1>2, Standing
<1>5. C!Past(frames[h]) \in C!Frame
  BY <1>4, FrameMoves DEF NInv
<1> HIDE DEF h
<1>6. /\ frames' \in Seq(C!Frame) /\ Len(frames') = Len(frames)
      /\ \A f \in 1..h - 1 : frames'[f] = frames[f]
  <2>1. frames' = [frames EXCEPT ![h] = C!Past(frames[h])]
    BY <1>1 DEF h
  <2> QED
    BY <1>4, <1>5, <2>1, FrameSet
<1>7. Core(control, frames', open')
  <2>1. open' \subseteq 1..Len(frames')
    BY <1>1, <1>4, <1>6 DEF h
  <2>2. open' \subseteq open \/ control[Len(control)].kind # "native"
    BY <1>1 DEF Top
  <2>3. control[Len(control)].kind # "host" /\ control[Len(control)].site = 0
    BY <1>2, <1>3 DEF Top
  <2>4. Len(frames') <= MaxFrames /\ \A f \in 1..Height(control) - 1 : frames'[f] = frames[f]
    BY <1>4, <1>6
  <2> QED
    BY ZenonT(60), <1>1, <1>4, <1>6, <2>1, <2>2, <2>3, <2>4, MoveCore
<1>8. Len(frames') = Height(control') /\ Core(control', frames', open')
  BY <1>1, <1>4, <1>6, <1>7
<1>9. ctx' = NoExit /\ failing' \in BOOLEAN /\ FlagsOK' /\ compiled' \subseteq Supported
  BY <1>1, <1>4 DEF NInv, FlagsOK
<1>10. control'[Len(control')].site = 0
  BY <1>1, <1>3 DEF Top
<1> QED
  BY <1>1, <1>8, <1>9, <1>10, CalmInv

\* An error puts everything else aside.
LEMMA FailsStep ==
  ASSUME NInv, Raise, compiled' \subseteq Supported, "nested" \notin ctx.flags
  PROVE  NInv'
<1>1. failing' = TRUE /\ ctx' = NoExit /\ UNCHANGED <<program, frames, control, flags, open>>
  BY DEF Raise
<1>2. Core(control', frames', open') /\ Len(frames') = Height(control')
  BY <1>1, Standing
<1>3. FlagsOK' /\ compiled' \subseteq Supported
  BY <1>1 DEF NInv, FlagsOK
<1> QED
  BY <1>1, <1>2, <1>3, CalmInv

\* An instruction that makes or closes upvalues may fail when it has done so.
LEMMA UpvaluesFailStep ==
  ASSUME NInv, control # <<>>, Top.kind \in Loops \cup Interpreters, "nested" \notin ctx.flags,
         NEW opened, opened \subseteq open \cup {Top.frame}, UpvaluesFail(opened)
  PROVE  NInv'
<1>1. /\ failing' = TRUE /\ ctx' = NoExit /\ open' \subseteq open \cup {Top.frame}
      /\ UNCHANGED <<program, frames, control, flags, compiled>>
  BY DEF UpvaluesFail
<1>2. /\ Core(control, frames, open) /\ Len(frames) = Height(control)
      /\ control \in Seq(Activation) /\ Stack(control, frames)
      /\ Top.frame \in Nat \ {0} /\ Top.frame <= Len(frames) /\ frames \in Seq(C!Frame)
  BY Standing
<1>3. \A i \in 1..Len(control) : control[i].kind # "native"
  BY <1>2, NoNatives DEF Top, Loops, Interpreters
<1>4. open' \subseteq 1..Len(frames)
  <2>1. Top.frame \in 1..Len(frames) /\ open \subseteq 1..Len(frames)
    BY <1>2 DEF Core
  <2> QED
    BY <1>1, <2>1
<1>5. \A i \in 1..Len(control) - 1 : i \in 1..Len(control)
  BY <1>2
<1>6. Core(control, frames, open')
  BY <1>2, <1>3, <1>4, <1>5 DEF Core
<1>7. Core(control', frames', open') /\ Len(frames') = Height(control')
  BY <1>1, <1>2, <1>6
<1>8. FlagsOK' /\ compiled' \subseteq Supported
  BY <1>1 DEF NInv, FlagsOK
<1> QED
  BY <1>1, <1>7, <1>8, CalmInv

\* The interpreter takes over the frame of the Go loop.
LEMMA DeoptimiseStep ==
  ASSUME NInv, ~failing, TopIs(Loops), "nested" \notin ctx.flags,
         ctx.status \in {"stub", "deopt"}, Deoptimise
  PROVE  NInv'
<1>1. control # <<>> /\ Top.kind \in Loops
  BY DEF TopIs
<1>2. /\ Core(control, frames, open) /\ Len(frames) = Height(control)
      /\ Top \in Activation /\ Top.frame = Height(control)
      /\ Top.frame \in Nat \ {0} /\ frames[Top.frame] \in C!Frame
      /\ control \in Seq(Activation) /\ frames \in Seq(C!Frame) /\ Stack(control, frames)
      /\ Len(frames) <= MaxFrames /\ program \in Programs
      /\ open \subseteq 1..Len(frames) /\ Top.site = 0
  BY <1>1, Standing DEF NInv
<1>3. /\ frames' = [frames EXCEPT ![Top.frame] = [frames[Top.frame] EXCEPT !.pc = ctx.site]]
      /\ control' = Append(control, Act("deopt", Top.frame))
      /\ ctx' = NoExit
      /\ UNCHANGED <<program, flags, compiled, open, failing>>
  BY <1>2 DEF Deoptimise, SetFrame
<1> DEFINE h == Top.frame
           x == [frames[h] EXCEPT !.pc = ctx.site]
           a == Act("deopt", h)
<1>4. ctx.site \in Nat \ {0}
  <2>1. ctx.site \in DOMAIN program[frames[h].fn]
    BY DEF NInv, ExitSound, CodeOf
  <2>2. program[frames[h].fn] \in Seq(C!Instruction)
    BY <1>2, ProgramTyped DEF C!Frame
  <2> QED
    BY <2>1, <2>2
<1>5. x \in C!Frame
  BY <1>2, <1>4, FrameMoves
<1>6. h \in 1..Len(frames)
  BY <1>2
<1>7. a \in Activation /\ a.kind = "deopt" /\ a.frame = h /\ a.site = 0
  BY <1>2 DEF Act, Activation
<1> HIDE DEF h, x, a
<1>8. /\ frames' \in Seq(C!Frame) /\ Len(frames') = Len(frames)
      /\ \A f \in 1..h - 1 : frames'[f] = frames[f]
  <2>1. frames' = [frames EXCEPT ![h] = x]
    BY <1>3 DEF h, x
  <2> QED
    BY <1>2, <1>5, <1>6, <2>1, FrameSet
<1>9. Core(control, frames', open)
  <2>1. /\ control[Len(control)].kind # "host" /\ control[Len(control)].kind # "native"
        /\ control[Len(control)].site = 0
    BY <1>1, <1>2 DEF Top, Loops
  <2>2. /\ Len(frames') <= MaxFrames /\ open \subseteq 1..Len(frames')
        /\ \A f \in 1..Height(control) - 1 : frames'[f] = frames[f]
    BY <1>2, <1>8 DEF h
  <2> QED
    BY <1>1, <1>2, <1>8, <2>1, <2>2, MoveCore
<1>10. /\ Core(control', frames', open) /\ control' # <<>>
       /\ control'[Len(control')] = a /\ Height(control') = h
  <2>1. control' = Append(control, a)
    BY <1>3 DEF a, h
  <2>2. Link(control[Len(control)], a)
    BY <1>1, <1>2, <1>7 DEF Link, Top, h
  <2>3. ~Called(control[Len(control)], a)
    BY <1>7 DEF Called, Top, h
  <2>4. \A i \in 1..Len(control) : control[i].kind # "native"
    <3>1. control[Len(control)].kind # "native"
      BY <1>1 DEF Top, Loops
    <3> QED
      BY <1>2, <3>1, NoNatives
  <2>5. /\ Len(frames') <= Len(frames') /\ Len(frames') <= MaxFrames
        /\ Height(control) <= Len(frames')
    BY <1>2, <1>8
  <2> QED
    BY <1>1, <1>7, <1>8, <1>9, <2>1, <2>2, <2>3, <2>4, <2>5, PushCore
<1>11. /\ Core(control', frames', open') /\ Len(frames') = Height(control')
       /\ control'[Len(control')].site = 0
  BY <1>2, <1>3, <1>7, <1>8, <1>10 DEF h
<1>12. FlagsOK' /\ compiled' \subseteq Supported /\ failing' \in BOOLEAN
  BY <1>3 DEF NInv, FlagsOK
<1> QED
  BY <1>3, <1>11, <1>12, CalmInv

\* The last activation notes where it waits, or goes on.
LEMMA SiteCore ==
  ASSUME NEW ctl, NEW fs, NEW opened, Core(ctl, fs, opened), ctl # <<>>, NEW s \in Nat,
         s # 0 => /\ ctl[Len(ctl)].kind \in Loops \cup {"native"}
                  /\ s = fs[ctl[Len(ctl)].frame].pc,
         NEW c \in Seq(Activation), Len(c) = Len(ctl),
         c[Len(ctl)].kind = ctl[Len(ctl)].kind, c[Len(ctl)].frame = ctl[Len(ctl)].frame,
         c[Len(ctl)].site = s, \A i \in 1..Len(ctl) : i # Len(ctl) => c[i] = ctl[i]
  PROVE  /\ Core(c, fs, opened) /\ c # <<>> /\ Len(c) = Len(ctl) /\ Height(c) = Height(ctl)
         /\ c[Len(c)].kind = ctl[Len(ctl)].kind /\ c[Len(c)].frame = ctl[Len(ctl)].frame
         /\ c[Len(c)].site = s
         /\ \A i \in 1..Len(ctl) : /\ i # Len(ctl) => c[i] = ctl[i]
                                   /\ c[i].kind = ctl[i].kind /\ c[i].frame = ctl[i].frame
<1>1. PICK n \in Nat : n = Len(ctl) /\ n \in 1..n
  BY DEF Core
<1>2. ctl \in Seq(Activation) /\ Stack(ctl, fs)
  BY DEF Core
<1>3. /\ c \in Seq(Activation) /\ Len(c) = n /\ Stack(c, fs)
      /\ \A i \in 1..n : i # n => c[i] = ctl[i]
  BY <1>1, <1>2, SiteStack
<1>6. c[n].kind = ctl[n].kind /\ c[n].frame = ctl[n].frame /\ c[n].site = s
  BY <1>1
<1>7. \A i \in 1..n : c[i].kind = ctl[i].kind /\ c[i].frame = ctl[i].frame
  BY <1>3, <1>6
<1>8. \A i \in 1..n - 1 : c[i].kind = "native" => c[i + 1].frame \notin opened
  <2>1. \A i \in 1..n - 1 : ctl[i].kind = "native" => ctl[i + 1].frame \notin opened
    BY <1>1 DEF Core
  <2>2. \A i \in 1..n - 1 : i \in 1..n /\ i + 1 \in 1..n
    OBVIOUS
  <2> QED
    BY <1>7, <2>1, <2>2
<1>9. c # <<>> /\ Height(c) = Height(ctl)
  BY <1>1, <1>3, <1>6 DEF Height
<1>10. Core(c, fs, opened)
  <2>1. fs \in Seq(C!Frame) /\ Len(fs) <= MaxFrames /\ opened \subseteq 1..Len(fs)
    BY DEF Core
  <2> QED
    BY <1>3, <1>8, <2>1 DEF Core
<1>11. /\ c[Len(c)].kind = ctl[Len(ctl)].kind /\ c[Len(c)].frame = ctl[Len(ctl)].frame
       /\ c[Len(c)].site = s /\ Len(c) = Len(ctl)
  BY <1>1, <1>3, <1>6
<1>12. \A i \in 1..Len(ctl) : /\ i # Len(ctl) => c[i] = ctl[i]
                              /\ c[i].kind = ctl[i].kind /\ c[i].frame = ctl[i].frame
  BY <1>1, <1>3, <1>7
<1> QED
  BY <1>9, <1>10, <1>11, <1>12

\* A Go loop enters its frame's code behind a site.
LEMMA ResumeStep ==
  ASSUME NInv, NEW ctl, NEW fs, NEW opened, Core(ctl, fs, opened), ctl # <<>>,
         Height(ctl) = Len(fs), ctl[Len(ctl)].kind \in Loops, NEW s \in Nat,
         Resume(ctl, fs, s), open' \subseteq 1..Len(fs), program' = program,
         compiled' \subseteq Supported, failing' \in BOOLEAN
  PROVE  NInv'
<1> DEFINE h == ctl[Len(ctl)].frame
           x == [fs[h] EXCEPT !.pc = s + 1]
           c == Append([ctl EXCEPT ![Len(ctl)].site = 0], Act("native", h))
           gs == [fs EXCEPT ![h] = x]
<1>1. frames' = gs /\ control' = c /\ ctx' = NoExit /\ EnterNative
  BY DEF Resume
<1>2. fs[h] \in C!Frame
  <2>1. ctl \in Seq(Activation) /\ fs \in Seq(C!Frame)
    BY DEF Core
  <2>2. Len(ctl) \in 1..Len(ctl) /\ Height(ctl) = h
    BY <2>1 DEF Height
  <2>3. h \in Nat /\ h > 0
    BY <2>1, <2>2, ActivationFrame
  <2>4. h \in 1..Len(fs)
    BY <2>2, <2>3
  <2> QED
    BY <2>1, <2>4
<1>3. x \in C!Frame
  <2>1. s + 1 \in Nat \ {0} /\ program \in Programs
    BY DEF NInv
  <2> QED
    BY <1>2, <2>1, FrameMoves
<1> HIDE DEF x
<1>4. /\ Core(c, gs, open') /\ Len(gs) = Height(c)
      /\ c # <<>> /\ c[Len(c)] = Act("native", h)
  BY <1>3, LoopEnters
<1>5. c[Len(c)].site = 0
  BY <1>4 DEF Act
<1> HIDE DEF c, gs, h
<1>6. /\ Core(control', frames', open') /\ Len(frames') = Height(control')
      /\ control'[Len(control')].site = 0
  BY <1>1, <1>4, <1>5
<1>7. FlagsOK'
  BY <1>1 DEF FlagsOK, EnterNative
<1> QED
  BY <1>1, <1>6, <1>7, CalmInv

\* A callee has returned to whoever called it.
LEMMA DeliverStep ==
  ASSUME NInv, failing = FALSE, failing' = failing, NEW ctl, NEW fs,
         Core(ctl, fs, open'), Height(ctl) = Len(fs), Deliver(ctl, fs),
         ctl # <<>> => /\ Suspended(ctl[Len(ctl)])
                       /\ ctl[Len(ctl)].kind = "host" => C!IsAt(fs[ctl[Len(ctl)].frame], {"host"}),
         program' = program, compiled' \subseteq Supported
  PROVE  NInv'
<1>0. program \in Programs /\ FlagsOK
  BY DEF NInv
<1>1. CASE ctl = <<>>
  <2>1. frames' = fs /\ control' = ctl /\ ctx' = NoExit /\ flags' = flags
    BY <1>1 DEF Deliver
  <2>2. FlagsOK' /\ Core(control', frames', open') /\ Len(frames') = Height(control') /\ control' = <<>>
    BY <1>0, <1>1, <2>1 DEF FlagsOK
  <2> QED
    BY <2>1, <2>2, CalmInv
<1>2. CASE ctl # <<>>
  <2>1. PICK n \in Nat : n = Len(ctl) /\ n \in 1..n
    BY <1>2 DEF Core
  <2>2. PICK b \in Activation : b = ctl[Len(ctl)] /\ b = ctl[n]
    BY <2>1 DEF Core
  <2>3. b.frame \in 1..Len(fs) /\ b.frame = Height(ctl) /\ fs[b.frame] \in C!Frame
    <3>1. ctl \in Seq(Activation) /\ fs \in Seq(C!Frame)
      BY DEF Core
    <3>2. b.frame = Height(ctl) /\ b.frame \in Nat /\ b.frame > 0
      BY <1>2, <2>1, <2>2, <3>1, ActivationFrame DEF Height
    <3>3. b.frame \in 1..Len(fs)
      BY <3>2
    <3> QED
      BY <3>1, <3>2, <3>3
  <2>4. b.kind \in Loops => /\ b.site \in Nat \ {0} /\ b.site = fs[b.frame].pc
    BY <1>2, <2>1, <2>2 DEF Suspended, Core, Stack, Activation
  <2> DEFINE caller == IF b.kind \in Loops THEN [fs[b.frame] EXCEPT !.pc = b.site] ELSE fs[b.frame]
             tail == C!IsAt(caller, {"tailcall"})
  <2>5. caller \in C!Frame
    BY <1>0, <2>3, <2>4, FrameMoves
  <2>6. CASE b.kind \in Loops /\ ~tail
    <3>1. Resume(ctl, fs, b.site)
      BY <1>2, <2>2, <2>6 DEF Deliver
    <3>2. open' \subseteq 1..Len(fs)
      BY DEF Core
    <3> QED
      BY <1>2, <2>2, <2>4, <2>6, <3>1, <3>2, ResumeStep
  <2>7. CASE ~(b.kind \in Loops /\ ~tail)
    <3>1. /\ frames' = [fs EXCEPT ![b.frame] = C!Resumed(caller)]
          /\ control' = [ctl EXCEPT ![Len(ctl)].site = 0]
          /\ ctx' = IF b.kind \in Loops THEN Ok ELSE NoExit
          /\ UNCHANGED flags
      BY <1>2, <2>2, <2>7 DEF Deliver
    <3>2. b.kind \in Loops => C!Resumed(caller) = C!Ended(caller)
      <4>1. b.kind \in Loops => C!IsAt(caller, {"tailcall"})
        BY <2>7
      <4>2. C!IsAt(caller, {"tailcall"}) => ~C!IsAt(caller, {"host"})
        BY DEF C!IsAt
      <4> HIDE DEF caller
      <4> QED
        BY <4>1, <4>2 DEF C!Resumed
    <3>3. b.kind = "host" => C!Resumed(caller) = fs[b.frame]
      <4>1. "host" \notin Loops
        BY DEF Loops
      <4>2. b.kind = "host" => caller = fs[b.frame] /\ C!IsAt(caller, {"host"})
        BY <1>2, <2>2, <4>1
      <4>3. C!IsAt(caller, {"host"}) => ~C!IsAt(caller, {"tailcall"})
        BY DEF C!IsAt
      <4> HIDE DEF caller
      <4> QED
        BY <4>2, <4>3 DEF C!Resumed
    <3> HIDE DEF caller, tail
    <3>4. /\ frames' \in Seq(C!Frame) /\ Len(frames') = Len(fs)
          /\ frames'[b.frame] = C!Resumed(caller)
          /\ \A f \in 1..b.frame - 1 : frames'[f] = fs[f]
      <4>1. C!Resumed(caller) \in C!Frame
        BY <1>0, <2>5, FrameMoves
      <4>2. fs \in Seq(C!Frame)
        BY DEF Core
      <4> QED
        BY <2>3, <3>1, <4>1, <4>2, FrameSet
    <3>5. /\ Core(control', fs, open') /\ control' # <<>> /\ Height(control') = Height(ctl)
          /\ control'[Len(control')].kind = b.kind /\ control'[Len(control')].frame = b.frame
          /\ control'[Len(control')].site = 0
      <4>1. ctl \in Seq(Activation) /\ 0 \in Nat
        BY DEF Core
      <4> DEFINE c == [ctl EXCEPT ![Len(ctl)].site = 0]
      <4>2. /\ c \in Seq(Activation) /\ Len(c) = Len(ctl)
            /\ c[Len(ctl)].kind = ctl[Len(ctl)].kind
            /\ c[Len(ctl)].frame = ctl[Len(ctl)].frame
            /\ c[Len(ctl)].site = 0
            /\ \A i \in 1..Len(ctl) : i # Len(ctl) => c[i] = ctl[i]
        BY <1>2, <4>1, SiteSet
      <4>3. control' = c
        BY <3>1
      <4> HIDE DEF c
      <4>4. /\ Core(c, fs, open') /\ c # <<>> /\ Height(c) = Height(ctl)
            /\ c[Len(c)].kind = ctl[Len(ctl)].kind /\ c[Len(c)].frame = ctl[Len(ctl)].frame
            /\ c[Len(c)].site = 0
        BY <1>2, <4>1, <4>2, SiteCore
      <4> QED
        BY <2>2, <4>3, <4>4
    <3>6. Core(control', frames', open')
      <4>1. CASE b.kind = "host"
        <5>1. fs \in Seq(C!Frame)
          BY DEF Core
        <5>2. \A f \in 1..Len(fs) : frames'[f] = fs[f]
          BY <2>3, <3>1, <3>3, <4>1, <5>1
        <5>3. frames' = fs
          BY <3>4, <5>1, <5>2
        <5> QED
          BY <3>5, <5>3
      <4>2. CASE b.kind # "host"
        <5>1. b.kind # "native"
          BY <1>2, <2>2 DEF Suspended, Loops, CanCall
        <5>2. /\ Len(frames') <= MaxFrames /\ open' \subseteq 1..Len(frames')
              /\ \A f \in 1..Height(control') - 1 : frames'[f] = fs[f]
          BY <2>3, <3>4, <3>5 DEF Core
        <5> QED
          BY <3>4, <3>5, <4>2, <5>1, <5>2, MoveCore
      <4> QED
        BY <4>1, <4>2
    <3>7. Len(frames') = Height(control') /\ FlagsOK'
      BY <1>0, <3>1, <3>4, <3>5 DEF FlagsOK
    <3>8. CASE b.kind \in Loops
      <4>1. C!AtEnd(frames'[control'[Len(control')].frame])
        BY <1>0, <2>5, <3>2, <3>4, <3>5, <3>8, FrameMoves
      <4>2. ctx' = Ok /\ failing' = FALSE
        BY <3>1, <3>8
      <4> QED
        BY <3>5, <3>6, <3>7, <3>8, <4>1, <4>2, OkInv
    <3>9. CASE b.kind \notin Loops
      BY <3>1, <3>5, <3>6, <3>7, <3>9, CalmInv
    <3> QED
      BY <3>8, <3>9
  <2> QED
    BY <2>6, <2>7
<1> QED
  BY <1>1, <1>2

\* A stub has been served: the Go loop goes on behind the site.
LEMMA ResumeBehindStep ==
  ASSUME NInv, ~failing, TopIs(Loops), "nested" \notin ctx.flags,
         NEW opened, opened \subseteq open \cup {Top.frame}, ResumeBehind(opened)
  PROVE  NInv'
<1>1. control # <<>> /\ Top.kind \in Loops
  BY DEF TopIs
<1>2. /\ Core(control, frames, open) /\ Len(frames) = Height(control)
      /\ Top.frame \in 1..Len(frames) /\ open \subseteq 1..Len(frames)
  BY <1>1, Standing
<1>3. Resume(control, frames, ctx.site) /\ open' = opened /\ UNCHANGED <<program, compiled, failing>>
  BY DEF ResumeBehind
<1>4. ctx.site \in Nat
  BY DEF NInv, Exit
<1>5. open' \subseteq 1..Len(frames) /\ compiled' \subseteq Supported /\ failing' \in BOOLEAN
  BY <1>2, <1>3 DEF NInv
<1>6. control[Len(control)].kind \in Loops
  BY <1>1 DEF Top
<1> QED
  BY <1>1, <1>2, <1>3, <1>4, <1>5, <1>6, ResumeStep

\* The exits served without a call.
LEMMA ServeStep ==
  ASSUME NInv, \/ HandleDeopt \/ HandleError \/ HandleMarking \/ HandleSafepoint
               \/ HandleAccess \/ HandleClosure \/ HandleClose
  PROVE  NInv'
<1>1. ~failing /\ TopIs(Loops) /\ ctx.status \in {"stub", "deopt", "error"}
  BY DEF HandleDeopt, HandleError, HandleMarking, HandleSafepoint, HandleAccess, HandleClosure,
         HandleClose, Serves, ServesOp, ServesStub
<1>2. "nested" \notin ctx.flags
  <2>1. CASE HandleDeopt \/ HandleError
    BY <2>1 DEF HandleDeopt, HandleError, Serves, NInv, ExitSound
  <2>2. CASE HandleMarking \/ HandleSafepoint
    BY <2>2 DEF HandleMarking, HandleSafepoint, NInv, ExitSound
  <2>3. CASE HandleAccess \/ HandleClosure \/ HandleClose
    BY <2>3 DEF HandleAccess, HandleClosure, HandleClose, ServesOp, NInv, ExitSound
  <2> QED
    BY <2>1, <2>2, <2>3
<1>3. ASSUME Fails PROVE NInv'
  <2>1. Raise /\ compiled' \subseteq Supported
    BY <1>3 DEF Fails, NInv
  <2> QED
    BY <1>2, <2>1, FailsStep
<1>4. ASSUME Deoptimise, ctx.status \in {"stub", "deopt"} PROVE NInv'
  BY <1>1, <1>2, <1>4, DeoptimiseStep
<1>5. ASSUME NEW opened, opened \subseteq open \cup {Top.frame}, ResumeBehind(opened)
      PROVE  NInv'
  BY <1>1, <1>2, <1>5, ResumeBehindStep
<1>a. ASSUME NEW opened, opened \subseteq open \cup {Top.frame}, HandleUpvalues(opened)
      PROVE  NInv'
  <2>1. CASE ResumeBehind(opened)
    BY <1>5, <1>a, <2>1
  <2>2. CASE UpvaluesFail(opened)
    BY <1>1, <1>2, <1>a, <2>2, UpvaluesFailStep DEF TopIs
  <2> QED
    BY <1>a, <2>1, <2>2 DEF HandleUpvalues
<1>6. CASE HandleDeopt
  BY <1>4, <1>6 DEF HandleDeopt, Serves
<1>7. CASE HandleError
  BY <1>3, <1>7 DEF HandleError
<1>8. CASE HandleMarking \/ HandleSafepoint
  <2>1. ResumeBehind(open) \/ Fails
    BY <1>8 DEF HandleMarking, HandleSafepoint
  <2> QED
    BY <1>3, <1>5, <2>1
<1>9. CASE HandleAccess
  <2>1. ctx.status = "stub" /\ (ResumeBehind(open) \/ Deoptimise \/ Fails)
    BY <1>9 DEF HandleAccess, ServesOp, ServesStub, Serves
  <2> QED
    BY <1>3, <1>4, <1>5, <2>1
<1>10. CASE HandleClosure
  BY <1>a, <1>10 DEF HandleClosure
<1>11. CASE HandleClose
  <2>1. open \ {Top.frame} \subseteq open \cup {Top.frame}
    OBVIOUS
  <2> QED
    BY <1>a, <1>11, <2>1 DEF HandleClose
<1> QED
  BY <1>6, <1>7, <1>8, <1>9, <1>10, <1>11

\* A call that pushed its frame returns: the frame is gone, its upvalues closed,
\* and whoever called it goes on, or fails.
LEMMA ReturnStep ==
  ASSUME NInv, ~failing, control # <<>>, "nested" \notin ctx.flags,
         Top.kind \in {"compiled", "nested", "interp", "guarded"},
         open' = open \ {Top.frame},
         (Deliver(Below, Popped) /\ UNCHANGED failing) \/ NotStored(Below, Popped),
         UNCHANGED <<program, compiled>>
  PROVE  NInv'
<1>1. /\ Core(control, frames, open) /\ Len(frames) = Height(control)
      /\ control \in Seq(Activation) /\ frames \in Seq(C!Frame) /\ Stack(control, frames)
      /\ Len(frames) <= MaxFrames /\ open \subseteq 1..Len(frames)
      /\ Top.frame = Height(control)
  BY Standing
<1> DEFINE c == Below
           gs == Popped
<1>2. c = SubSeq(control, 1, Len(control) - 1)
  BY DEF Below
<1> HIDE DEF c
<1>3. /\ c \in Seq(Activation)
      /\ Height(control) \in Nat \ {0} /\ Height(c) = Height(control) - 1
      /\ c # <<>> => /\ Link(c[Len(c)], Top)
                     /\ Called(c[Len(c)], Top)
                          => C!IsAt(frames[Height(c)], CallOps(c[Len(c)], Top))
  BY ZenonT(60), <1>1, <1>2, HeightBelow DEF Top
<1>4. PICK h \in Nat : h + 1 = Len(frames) /\ h = Height(c)
  BY <1>1, <1>3
<1>5. gs \in Seq(C!Frame) /\ Len(gs) = h /\ \A f \in 1..h : gs[f] = frames[f]
  BY <1>1, <1>4 DEF Popped
<1> HIDE DEF gs
<1>6. Len(gs) <= MaxFrames
  BY <1>1, <1>4, <1>5, NativeCallsAssumption DEF NativeCallsAssumption
<1>7. open' \subseteq open /\ open' \subseteq 1..Len(gs)
  <2>1. Top.frame = h + 1 /\ open \subseteq 1..(h + 1) /\ Len(gs) = h
    BY <1>1, <1>3, <1>4, <1>5
  <2>2. \A f \in 1..(h + 1) : f # h + 1 => f \in 1..h
    OBVIOUS
  <2> QED
    BY <2>1, <2>2
<1>8. Core(c, gs, open')
  BY <1>1, <1>2, <1>4, <1>5, <1>6, <1>7, PopCore
<1>9. ASSUME c # <<>>
      PROVE  /\ Suspended(c[Len(c)])
             /\ c[Len(c)].kind = "host" => C!IsAt(gs[c[Len(c)].frame], {"host"})
  <2>1. Len(c) \in 1..Len(c)
    BY <1>3, <1>9
  <2>2. PICK a \in Activation : a = c[Len(c)] /\ a.frame \in Nat /\ a.frame > 0
    BY <1>3, <2>1, ActivationFrame
  <2>3. Link(a, Top) /\ (Called(a, Top) => C!IsAt(frames[h], CallOps(a, Top)))
    BY <1>3, <1>4, <1>9, <2>2
  <2>4. a.frame = h /\ Top.frame = h + 1
    BY <1>1, <1>3, <1>4, <1>9, <2>2 DEF Height
  <2>5. Suspended(a)
    BY <2>3 DEF Link, Suspended
  <2>6. Called(a, Top)
    BY <2>4 DEF Called
  <2>7. a.kind = "host" => C!IsAt(gs[h], {"host"})
    BY <1>5, <2>2, <2>3, <2>4, <2>6 DEF CallOps
  <2> QED
    BY <2>2, <2>4, <2>5, <2>7
<1>10. failing = FALSE /\ compiled' \subseteq Supported
  BY DEF NInv
<1>11. Height(c) = Len(gs)
  BY <1>4, <1>5
<1>12. CASE Deliver(Below, Popped) /\ UNCHANGED failing
  <2>1. Deliver(c, gs)
    BY <1>12 DEF c, gs
  <2> QED
    BY <1>8, <1>9, <1>10, <1>11, <1>12, <2>1, DeliverStep
<1>13. CASE NotStored(Below, Popped)
  <2>1. frames' = gs /\ control' = c /\ ctx' = NoExit /\ failing' = TRUE /\ flags' = flags
    BY <1>13 DEF NotStored, c, gs
  <2>2. Core(control', frames', open') /\ Len(frames') = Height(control')
    BY <1>8, <1>11, <2>1
  <2>3. FlagsOK'
    BY <2>1 DEF NInv, FlagsOK
  <2> QED
    BY <1>10, <2>1, <2>2, <2>3, CalmInv
<1> QED
  BY <1>12, <1>13

\* A Go loop or the interpreter finishes its call.
LEMMA FinishStep ==
  ASSUME NInv, Finish \/ InterpReturn
  PROVE  NInv'
<1>1. /\ ~failing /\ control # <<>> /\ open' = open \ {Top.frame}
      /\ (Deliver(Below, Popped) /\ UNCHANGED failing) \/ NotStored(Below, Popped)
      /\ UNCHANGED <<program, compiled>>
  BY DEF Finish, InterpReturn, Serves, Interpreting, TopIs
<1>2. Top.kind \in {"compiled", "nested", "interp", "guarded"}
  BY DEF Finish, InterpReturn, Serves, Interpreting, TopIs, Loops, Interpreters
<1>3. "nested" \notin ctx.flags
  <2>1. CASE Finish
    BY <2>1 DEF Finish, Serves, NInv, ExitSound
  <2>2. CASE InterpReturn
    BY <2>2, <1>1, Standing, ExitFields DEF InterpReturn, Interpreting, TopIs, Interpreters, Loops
  <2> QED
    BY <2>1, <2>2
<1> QED
  BY <1>1, <1>2, <1>3, ReturnStep

\* The interpreter gives the frame it took over back to its Go loop.
LEMMA DeoptReturnStep ==
  ASSUME NInv, DeoptReturn
  PROVE  NInv'
<1>1. /\ ~failing /\ control # <<>> /\ Top.kind = "deopt" /\ C!AtEnd(frames[Top.frame])
      /\ control' = Below /\ ctx' = Ok
      /\ UNCHANGED <<program, frames, flags, compiled, open, failing>>
  BY DEF DeoptReturn, Interpreting, TopIs
<1>2. /\ Core(control, frames, open) /\ Len(frames) = Height(control) /\ ctx = NoExit
      /\ control \in Seq(Activation) /\ frames \in Seq(C!Frame) /\ Stack(control, frames)
      /\ Len(frames) <= MaxFrames /\ open \subseteq 1..Len(frames)
      /\ Top.frame = Height(control) /\ Top.frame \in Nat
  BY <1>1, Standing DEF Loops
<1> DEFINE c == Below
<1>3. c = SubSeq(control, 1, Len(control) - 1)
  BY DEF Below
<1> HIDE DEF c
<1>4. c \in Seq(Activation) /\ c # <<>> /\ Height(c) = Height(control) /\ Link(c[Len(c)], Top)
  BY <1>1, <1>2, <1>3, HeightBelow DEF Top
<1>5. Core(c, frames, open)
  BY <1>1, <1>2, <1>3, PopCore
<1>6. c[Len(c)].kind \in Loops /\ c[Len(c)].site = 0 /\ c[Len(c)].frame = Top.frame
  BY <1>1, <1>4 DEF Link
<1>7. /\ Core(control', frames', open') /\ Len(frames') = Height(control') /\ control' # <<>>
      /\ control'[Len(control')].kind \in Loops /\ control'[Len(control')].site = 0
      /\ C!AtEnd(frames'[control'[Len(control')].frame])
  BY <1>1, <1>2, <1>4, <1>5, <1>6 DEF c
<1>8. FlagsOK' /\ compiled' \subseteq Supported /\ failing' = FALSE
  BY <1>1 DEF NInv, FlagsOK
<1> QED
  BY <1>1, <1>7, <1>8, OkInv

\* One activation on top of the others.
LEMMA OneMore ==
  ASSUME NEW ctl \in Seq(Activation), NEW k, NEW f, Act(k, f) \in Activation
  PROVE  ctl \o [i \in 1..Len(<<k>>) |-> Act(<<k>>[i], f)] = Append(ctl, Act(k, f))
<1> DEFINE s == [i \in 1..Len(<<k>>) |-> Act(<<k>>[i], f)]
           t == <<Act(k, f)>>
<1>1. Len(<<k>>) = 1 /\ <<k>>[1] = k
  OBVIOUS
<1>2. s = [i \in 1..1 |-> Act(<<k>>[i], f)] /\ t = [i \in 1..1 |-> t[i]]
  BY <1>1
<1>3. \A i \in 1..1 : Act(<<k>>[i], f) = t[i]
  BY <1>1
<1>4. s = t
  BY <1>2, <1>3
<1>5. ctl \o t = Append(ctl, Act(k, f))
  BY AppendIsConcat
<1> QED
  BY <1>4, <1>5

\* The same of the Go loop and the native code it enters.
LEMMA TwoMore ==
  ASSUME NEW ctl \in Seq(Activation), NEW j, NEW k, NEW f,
         Act(j, f) \in Activation, Act(k, f) \in Activation
  PROVE  ctl \o [i \in 1..Len(<<j, k>>) |-> Act(<<j, k>>[i], f)]
           = Append(Append(ctl, Act(j, f)), Act(k, f))
<1> DEFINE a == Act(j, f)
           b == Act(k, f)
           s == [i \in 1..Len(<<j, k>>) |-> Act(<<j, k>>[i], f)]
<1>1. Len(<<j, k>>) = 2 /\ <<j, k>>[1] = j /\ <<j, k>>[2] = k
  OBVIOUS
<1>2. s = [i \in 1..2 |-> Act(<<j, k>>[i], f)] /\ <<a, b>> = [i \in 1..2 |-> <<a, b>>[i]]
  BY <1>1
<1>3. \A i \in 1..2 : Act(<<j, k>>[i], f) = <<a, b>>[i]
  BY <1>1
<1>4. s = <<a, b>>
  BY <1>2, <1>3
<1> HIDE DEF a, b
<1>5. a \in Activation /\ b \in Activation
  BY DEF a, b
<1> DEFINE u == <<a, b>>
           t == Append(Append(ctl, a), b)
<1>6. u \in Seq(Activation) /\ Len(u) = 2 /\ u[1] = a /\ u[2] = b
  BY <1>5
<1> HIDE DEF u
<1>7. /\ ctl \o u \in Seq(Activation) /\ Len(ctl \o u) = Len(ctl) + 2
      /\ \A i \in 1..Len(ctl) + 2 : (ctl \o u)[i] = IF i <= Len(ctl) THEN ctl[i] ELSE u[i - Len(ctl)]
  <2>1. /\ ctl \o u \in Seq(Activation) /\ Len(ctl \o u) = Len(ctl) + Len(u)
        /\ \A i \in 1..Len(ctl) + Len(u) :
             (ctl \o u)[i] = IF i <= Len(ctl) THEN ctl[i] ELSE u[i - Len(ctl)]
    BY <1>6, ConcatProperties
  <2> QED
    BY <1>6, <2>1
<1>8. /\ t \in Seq(Activation) /\ Len(t) = Len(ctl) + 2
      /\ t[Len(ctl) + 1] = a /\ t[Len(ctl) + 2] = b
      /\ \A i \in 1..Len(ctl) : t[i] = ctl[i]
  BY <1>5
<1> HIDE DEF t
<1>9. ASSUME NEW i \in 1..Len(ctl) + 2 PROVE (ctl \o u)[i] = t[i]
  <2>1. PICK n \in Nat : n = Len(ctl) /\ i \in 1..n + 2
    OBVIOUS
  <2>2. CASE i <= n
    BY <1>7, <1>8, <2>1, <2>2
  <2>3. CASE i = n + 1
    <3>1. i - n = 1 /\ ~(i <= n)
      BY <2>1, <2>3
    <3> QED
      BY <1>6, <1>7, <1>8, <2>1, <2>3, <3>1
  <2>4. CASE i = n + 2
    <3>1. i - n = 2 /\ ~(i <= n)
      BY <2>1, <2>4
    <3> QED
      BY <1>6, <1>7, <1>8, <2>1, <2>4, <3>1
  <2>5. i <= n \/ i = n + 1 \/ i = n + 2
    BY <2>1
  <2> QED
    BY <2>2, <2>3, <2>4, <2>5
<1>10. ctl \o u = t
  BY <1>7, <1>8, <1>9, SeqEqual
<1> QED
  BY <1>4, <1>10 DEF u, t, a, b

\* A frame is pushed for the callee of the last activation, or of the host.
LEMMA PushOne ==
  ASSUME program \in Programs, NEW ctl, Core(ctl, frames, open), Height(ctl) = Len(frames),
         \A i \in 1..Len(ctl) : ctl[i].kind # "native",
         NEW g \in Functions, Len(frames) < MaxFrames,
         NEW k \in {"compiled", "guarded", "interp"}, ctl = <<>> => k # "interp",
         ctl # <<>> => /\ Suspended(ctl[Len(ctl)])
                       /\ C!IsAt(frames[ctl[Len(ctl)].frame],
                                 CallOps(ctl[Len(ctl)], Act(k, Len(frames) + 1)))
  PROVE  LET a == Act(k, Len(frames) + 1)
             c == Append(ctl, a)
             gs == Append(frames, C!Start(g))
         IN  /\ a \in Activation /\ Core(c, gs, open) /\ c # <<>> /\ c[Len(c)] = a
             /\ Height(c) = Len(gs) /\ Len(gs) = Len(frames) + 1
             /\ \A i \in 1..Len(c) : c[i].kind # "native"
<1> DEFINE a == Act(k, Len(frames) + 1)
           c == Append(ctl, a)
           gs == Append(frames, C!Start(g))
<1>1. /\ ctl \in Seq(Activation) /\ frames \in Seq(C!Frame) /\ open \subseteq 1..Len(frames)
      /\ Stack(ctl, frames)
  BY DEF Core
<1>2. PICK n \in Nat : n = Len(frames) /\ n + 1 \in 1..MaxFrames
  BY <1>1, NativeCallsAssumption DEF NativeCallsAssumption
<1>3. /\ a \in Activation /\ a.kind = k /\ a.frame = n + 1 /\ a.site = 0
  BY <1>2 DEF Act, Activation
<1>4. gs \in Seq(C!Frame) /\ Len(gs) = n + 1 /\ \A f \in 1..n : gs[f] = frames[f]
  <2>1. C!Start(g) \in C!Frame
    BY DEF C!Start, C!Frame
  <2> QED
    BY <1>1, <1>2, <2>1
<1> HIDE DEF gs
<1>5. ctl = <<>> => a.kind \in {"compiled", "guarded"} /\ a.frame = 1
  BY <1>2, <1>3 DEF Height
<1>6. ctl # <<>> => /\ Link(ctl[Len(ctl)], a)
                    /\ Called(ctl[Len(ctl)], a)
                         => C!IsAt(frames[ctl[Len(ctl)].frame], CallOps(ctl[Len(ctl)], a))
  <2>1. ctl # <<>> => ctl[Len(ctl)].frame = n
    BY <1>2 DEF Height
  <2>2. ctl # <<>> => Link(ctl[Len(ctl)], a)
    BY <1>3, <2>1 DEF Link
  <2> QED
    BY <2>2
<1> HIDE DEF a
<1>7. /\ Core(c, gs, open) /\ c # <<>> /\ c[Len(c)] = a /\ Height(c) = a.frame
  <2>1. Len(frames) <= Len(gs) /\ Len(gs) <= MaxFrames /\ Height(ctl) <= Len(frames)
    BY <1>2, <1>4, NativeCallsAssumption DEF NativeCallsAssumption
  <2>2. \A f \in 1..Len(frames) : gs[f] = frames[f]
    BY <1>2, <1>4
  <2> QED
    BY <1>3, <1>4, <1>5, <1>6, <2>1, <2>2, PushCore
<1>8. \A i \in 1..Len(c) : c[i].kind # "native"
  <2>1. Len(c) = Len(ctl) + 1 /\ c[Len(ctl) + 1] = a /\ \A i \in 1..Len(ctl) : c[i] = ctl[i]
    BY <1>1, <1>3
  <2>2. a.kind # "native"
    BY <1>3
  <2> HIDE DEF c
  <2>3. \A i \in 1..Len(ctl) + 1 : i \in 1..Len(ctl) \/ i = Len(ctl) + 1
    BY <1>1
  <2> QED
    BY <2>1, <2>2, <2>3
<1>9. Height(c) = Len(gs) /\ Len(gs) = Len(frames) + 1
  BY <1>2, <1>3, <1>4, <1>7
<1> QED
  BY <1>3, <1>7, <1>8, <1>9 DEF a, gs

\* A call is made for the activation on top of ctl, which the thread's frames end
\* with, or it fails for want of room.
LEMMA PushStep ==
  ASSUME NInv, ~failing, "nested" \notin ctx.flags,
         NEW ctl, Core(ctl, frames, open), Height(ctl) = Len(frames),
         \A i \in 1..Len(ctl) : ctl[i].kind # "native",
         ctl # <<>> => /\ Suspended(ctl[Len(ctl)])
                       /\ C!IsAt(frames[ctl[Len(ctl)].frame],
                                 IF ctl[Len(ctl)].kind = "host" THEN {"host"}
                                 ELSE {"call", "tailcall", "meta"}),
         NEW g \in Functions, compiled' \subseteq Supported,
         \/ Push(ctl, g, <<"compiled", "native">>) \/ Push(ctl, g, <<"guarded">>)
         \/ ctl # <<>> /\ Push(ctl, g, <<"interp">>)
  PROVE  NInv'
<1>1. CASE Len(frames) = MaxFrames
  <2>1. Raise
    BY <1>1 DEF Push
  <2> QED
    BY <2>1, FailsStep
<1>2. CASE Len(frames) # MaxFrames
  <2>1. /\ ctl \in Seq(Activation) /\ frames \in Seq(C!Frame) /\ Len(frames) <= MaxFrames
        /\ program \in Programs /\ MaxFrames \in Nat /\ FlagsOK /\ failing = FALSE
    BY NativeCallsAssumption DEF Core, NInv, NativeCallsAssumption
  <2>2. Len(frames) < MaxFrames
    BY <1>2, <2>1
  <2> DEFINE f == Len(frames) + 1
             gs == Append(frames, C!Start(g))
  <2>3. ASSUME NEW k \in {"compiled", "guarded", "interp"}, ctl = <<>> => k # "interp"
        PROVE  /\ Act(k, f) \in Activation /\ Core(Append(ctl, Act(k, f)), gs, open)
               /\ Append(ctl, Act(k, f)) # <<>>
               /\ Append(ctl, Act(k, f))[Len(Append(ctl, Act(k, f)))] = Act(k, f)
               /\ Height(Append(ctl, Act(k, f))) = Len(gs) /\ Len(gs) = Len(frames) + 1
               /\ \A i \in 1..Len(Append(ctl, Act(k, f))) : Append(ctl, Act(k, f))[i].kind # "native"
    <3>1. Act(k, f).kind = k
      BY DEF Act
    <3>2. ctl # <<>> => CallOps(ctl[Len(ctl)], Act(k, f)) =
                          IF ctl[Len(ctl)].kind = "host" THEN {"host"}
                          ELSE {"call", "tailcall", "meta"}
      BY <3>1 DEF CallOps
    <3>3. ctl # <<>> => C!IsAt(frames[ctl[Len(ctl)].frame], CallOps(ctl[Len(ctl)], Act(k, f)))
      BY <3>2
    <3> QED
      BY <2>1, <2>2, <2>3, <3>3, PushOne
  <2>4. ASSUME NEW k \in {"guarded", "interp"}, ctl = <<>> => k # "interp", Push(ctl, g, <<k>>)
        PROVE  NInv'
    <3>1. /\ frames' = gs /\ control' = ctl \o [i \in 1..Len(<<k>>) |-> Act(<<k>>[i], f)]
          /\ ctx' = NoExit /\ UNCHANGED <<program, open, failing>>
          /\ IF "native" \in {<<k>>[i] : i \in 1..Len(<<k>>)} THEN EnterNative ELSE UNCHANGED flags
      BY <1>2, <2>4 DEF Push
    <3>2. FlagsOK'
      BY <2>1, <3>1 DEF FlagsOK, EnterNative
    <3> DEFINE c == Append(ctl, Act(k, f))
    <3>3. Act(k, f) \in Activation /\ Core(c, gs, open) /\ c[Len(c)] = Act(k, f) /\ Height(c) = Len(gs)
      BY <2>3, <2>4
    <3>4. control' = c
      BY <2>1, <3>1, <3>3, OneMore
    <3>5. Act(k, f).site = 0
      BY DEF Act
    <3> HIDE DEF c, gs
    <3>6. /\ Core(control', frames', open') /\ Len(frames') = Height(control')
          /\ control'[Len(control')].site = 0 /\ failing' \in BOOLEAN
      BY <2>1, <3>1, <3>3, <3>4, <3>5
    <3> QED
      BY <3>1, <3>2, <3>6, CalmInv
  <2>5. ASSUME Push(ctl, g, <<"compiled", "native">>)
        PROVE  NInv'
    <3> DEFINE j == "compiled"
               k == "native"
               a == Act(j, f)
               b == Act(k, f)
               c == Append(ctl, a)
               d == Append(c, b)
    <3>1. /\ frames' = gs /\ control' = ctl \o [i \in 1..Len(<<j, k>>) |-> Act(<<j, k>>[i], f)]
          /\ ctx' = NoExit /\ UNCHANGED <<program, open, failing>>
          /\ IF "native" \in {<<j, k>>[i] : i \in 1..Len(<<j, k>>)} THEN EnterNative
                                                                   ELSE UNCHANGED flags
      BY <1>2, <2>5 DEF Push
    <3>2. FlagsOK'
      BY <2>1, <3>1 DEF FlagsOK, EnterNative
    <3>3. /\ a \in Activation /\ Core(c, gs, open) /\ c # <<>> /\ c[Len(c)] = a
          /\ Height(c) = Len(gs) /\ \A i \in 1..Len(c) : c[i].kind # "native"
      BY <2>3
    <3>4. /\ a.kind = "compiled" /\ b.kind = "native" /\ a.frame = f /\ b.frame = f
          /\ a.site = 0 /\ b.site = 0
      BY DEF Act
    <3>5. b \in Activation
      <4>1. f \in 1..MaxFrames
        BY <2>1, <2>2
      <4> QED
        BY <4>1 DEF Activation, Act
    <3>6. control' = d
      BY <2>1, <3>1, <3>3, <3>5, TwoMore
    <3> HIDE DEF a, b
    <3> HIDE DEF gs
    <3>7. Link(a, b) /\ ~Called(a, b)
      BY <3>4 DEF Link, Called, Loops
    <3>8. gs \in Seq(C!Frame) /\ Len(gs) <= MaxFrames
      BY <3>3 DEF Core
    <3> HIDE DEF c
    <3>9. Core(d, gs, open) /\ d # <<>> /\ d[Len(d)] = b /\ Height(d) = b.frame
      <4>1. Len(gs) <= Len(gs) /\ Height(c) <= Len(gs)
        BY <3>3, <3>8
      <4>2. Link(c[Len(c)], b) /\ ~Called(c[Len(c)], b)
        BY <3>3, <3>7
      <4> QED
        BY ZenonT(60), <3>3, <3>4, <3>5, <3>8, <4>1, <4>2, PushCore
    <3>10. Height(c) = a.frame
      BY <3>3 DEF Height
    <3> HIDE DEF d
    <3>11. /\ Core(control', frames', open') /\ Len(frames') = Height(control')
           /\ control'[Len(control')].site = 0 /\ failing' \in BOOLEAN
      BY <2>1, <3>1, <3>3, <3>4, <3>6, <3>9, <3>10
    <3> QED
      BY <3>1, <3>2, <3>11, CalmInv
  <2> QED
    BY <2>4, <2>5
<1> QED
  BY <1>1, <1>2

\* A Go loop that serves a call notes the site, where its frame stands.
LEMMA Waiting ==
  ASSUME NInv, ServesStub, SiteMatches, NEW c, c = WaitAt(ctx.site)
  PROVE  /\ Core(c, frames, open) /\ c # <<>> /\ Height(c) = Height(control)
         /\ \A i \in 1..Len(c) : c[i].kind # "native"
         /\ Suspended(c[Len(c)]) /\ c[Len(c)].kind \in Loops /\ c[Len(c)].site # 0
         /\ c[Len(c)].frame = Top.frame /\ Top.frame = Height(control)
         /\ Served.callee \in Functions
         /\ \A ops : Served.op \in ops => C!IsAt(frames[Top.frame], ops)
<1>1. /\ ~failing /\ control # <<>> /\ Top.kind \in Loops /\ ctx.status = "stub"
      /\ "safepoint" \notin ctx.flags
  BY DEF ServesStub, Serves, TopIs
<1>2. /\ Core(control, frames, open) /\ program \in Programs /\ frames[Top.frame] \in C!Frame
      /\ Top.frame = Height(control) /\ control \in Seq(Activation)
  BY <1>1, Standing
<1>3. ctx.site \in DOMAIN program[frames[Top.frame].fn] /\ frames[Top.frame].pc = ctx.site
  BY <1>1 DEF NInv, ExitSound, CodeOf
<1>4. PICK n \in Nat : /\ n = Len(program[frames[Top.frame].fn]) /\ ctx.site \in 1..n
                        /\ program[frames[Top.frame].fn] \in Seq(C!Instruction)
  <2>1. program[frames[Top.frame].fn] \in Seq(C!Instruction)
    BY <1>2, ProgramTyped DEF C!Frame
  <2> QED
    BY <1>3, <2>1
<1>5. ~C!AtEnd(frames[Top.frame])
  BY <1>3, <1>4 DEF C!AtEnd, C!Code
<1>6. \A ops : Served.op \in ops => C!IsAt(frames[Top.frame], ops)
  BY <1>3, <1>5 DEF Served, CodeOf, C!IsAt, C!OpOf, C!Code
<1>7. Served.callee \in Functions
  <2>1. Served \in C!Instruction
    BY <1>4 DEF Served, CodeOf
  <2> QED
    BY <2>1 DEF C!Instruction
<1>8. /\ ctx.site \in Nat /\ ctx.site # 0
  BY <1>4
<1>9. c = [control EXCEPT ![Len(control)].site = ctx.site]
  BY DEF WaitAt
<1>10. /\ c \in Seq(Activation) /\ Len(c) = Len(control)
       /\ c[Len(control)].kind = control[Len(control)].kind
       /\ c[Len(control)].frame = control[Len(control)].frame
       /\ c[Len(control)].site = ctx.site
       /\ \A i \in 1..Len(control) : i # Len(control) => c[i] = control[i]
  <2> DEFINE d == [control EXCEPT ![Len(control)].site = ctx.site]
  <2>1. /\ d \in Seq(Activation) /\ Len(d) = Len(control)
        /\ d[Len(control)].kind = control[Len(control)].kind
        /\ d[Len(control)].frame = control[Len(control)].frame
        /\ d[Len(control)].site = ctx.site
        /\ \A i \in 1..Len(control) : i # Len(control) => d[i] = control[i]
    BY <1>1, <1>2, <1>8, SiteSet
  <2>2. c = d
    BY <1>9
  <2> HIDE DEF d
  <2> QED
    BY <2>1, <2>2
<1> HIDE <1>9
<1>11. /\ Core(c, frames, open) /\ c # <<>> /\ Height(c) = Height(control)
       /\ c[Len(c)].kind = control[Len(control)].kind
       /\ c[Len(c)].frame = control[Len(control)].frame
       /\ c[Len(c)].site = ctx.site
  <2>1. ctx.site # 0 => /\ control[Len(control)].kind \in Loops \cup {"native"}
                        /\ ctx.site = frames[control[Len(control)].frame].pc
    BY <1>1, <1>3 DEF Top
  <2> QED
    BY <1>1, <1>2, <1>8, <1>10, <2>1, SiteCore
<1>12. c[Len(c)].kind \in Loops /\ c[Len(c)].frame = Top.frame /\ c[Len(c)].site # 0
  BY <1>1, <1>8, <1>11 DEF Top
<1>13. \A i \in 1..Len(c) : c[i].kind # "native"
  <2>1. c \in Seq(Activation) /\ Stack(c, frames)
    BY <1>11 DEF Core
  <2>2. c[Len(c)].kind # "native"
    BY <1>12 DEF Loops
  <2> QED
    BY <2>1, <2>2, NoNatives
<1>14. Suspended(c[Len(c)])
  BY <1>12 DEF Suspended
<1> QED
  BY <1>2, <1>6, <1>7, <1>11, <1>12, <1>13, <1>14

\* The runtime calls a function.
LEMMA RuntimeCallStep ==
  ASSUME NInv, ~failing, "nested" \notin ctx.flags,
         NEW ctl, Core(ctl, frames, open), Height(ctl) = Len(frames),
         \A i \in 1..Len(ctl) : ctl[i].kind # "native",
         ctl # <<>> =>
           /\ Suspended(ctl[Len(ctl)])
           /\ ctl[Len(ctl)].kind = "host" => C!IsAt(frames[ctl[Len(ctl)].frame], {"host"})
           /\ ctl[Len(ctl)].kind # "host"
                => C!IsAt(frames[ctl[Len(ctl)].frame], {"call", "tailcall", "meta"}),
         NEW g \in Functions, RuntimeCall(ctl, g)
  PROVE  NInv'
<1>1. /\ \/ Push(ctl, g, <<"compiled", "native">>) \/ Push(ctl, g, <<"guarded">>)
         \/ ctl # <<>> /\ Push(ctl, g, <<"interp">>)
      /\ compiled' \subseteq compiled \cup Supported
  BY DEF RuntimeCall, Interpret
<1>2. compiled' \subseteq Supported
  BY <1>1 DEF NInv
<1>3. ctl # <<>> => C!IsAt(frames[ctl[Len(ctl)].frame],
                           IF ctl[Len(ctl)].kind = "host" THEN {"host"}
                           ELSE {"call", "tailcall", "meta"})
  OBVIOUS
<1> QED
  BY <1>1, <1>2, <1>3, PushStep

\* The interpreter calls a function.
LEMMA InterpretStep ==
  ASSUME NInv, ~failing, "nested" \notin ctx.flags,
         NEW ctl, Core(ctl, frames, open), Height(ctl) = Len(frames), ctl # <<>>,
         \A i \in 1..Len(ctl) : ctl[i].kind # "native",
         ctl # <<>> =>
           /\ Suspended(ctl[Len(ctl)])
           /\ ctl[Len(ctl)].kind = "host" => C!IsAt(frames[ctl[Len(ctl)].frame], {"host"})
           /\ ctl[Len(ctl)].kind # "host"
                => C!IsAt(frames[ctl[Len(ctl)].frame], {"call", "tailcall", "meta"}),
         NEW g \in Functions, Interpret(ctl, g)
  PROVE  NInv'
<1>1. /\ \/ Push(ctl, g, <<"compiled", "native">>) \/ Push(ctl, g, <<"guarded">>)
         \/ ctl # <<>> /\ Push(ctl, g, <<"interp">>)
      /\ compiled' \subseteq compiled \cup Supported
  BY DEF RuntimeCall, Interpret
<1>2. compiled' \subseteq Supported
  BY <1>1 DEF NInv
<1>3. ctl # <<>> => C!IsAt(frames[ctl[Len(ctl)].frame],
                           IF ctl[Len(ctl)].kind = "host" THEN {"host"}
                           ELSE {"call", "tailcall", "meta"})
  OBVIOUS
<1> QED
  BY <1>1, <1>2, <1>3, PushStep

\* A function that native code left is called through the runtime.
LEMMA HandleCallStep ==
  ASSUME NInv, HandleCall \/ HandleMeta
  PROVE  NInv'
<1>1. ServesStub /\ SiteMatches /\ Served.op \in {"call", "tailcall", "meta"} /\ ~failing
  BY DEF HandleCall, HandleMeta, ServesOp, ServesStub, Serves
<1>2. "nested" \notin ctx.flags
  BY DEF HandleCall, HandleMeta, ServesOp, NInv, ExitSound
<1> DEFINE c == WaitAt(ctx.site)
<1>3. /\ Core(c, frames, open) /\ c # <<>> /\ Height(c) = Height(control)
      /\ \A i \in 1..Len(c) : c[i].kind # "native"
      /\ Suspended(c[Len(c)]) /\ c[Len(c)].kind \in Loops
      /\ c[Len(c)].frame = Top.frame /\ Served.callee \in Functions
      /\ C!IsAt(frames[Top.frame], {"call", "tailcall", "meta"})
  BY <1>1, Waiting
<1>4. \/ Fails \/ RuntimeCall(c, Served.callee) \/ Interpret(c, Served.callee)
  BY DEF HandleCall, HandleMeta
<1> HIDE DEF c
<1>5. Height(c) = Len(frames)
  BY <1>2, <1>3, Standing
<1>6. CASE Fails
  <2>1. Raise /\ compiled' \subseteq Supported
    BY <1>6 DEF Fails, NInv
  <2> QED
    BY <1>2, <2>1, FailsStep
<1>7. CASE ~Fails
  <2>1. c[Len(c)].kind # "host"
    BY <1>3 DEF Loops
  <2>2. C!IsAt(frames[c[Len(c)].frame], {"call", "tailcall", "meta"})
    BY <1>3
  <2>4. CASE RuntimeCall(c, Served.callee)
    BY <1>1, <1>2, <1>3, <1>5, <2>1, <2>2, <2>4, RuntimeCallStep
  <2>5. CASE Interpret(c, Served.callee)
    BY <1>1, <1>2, <1>3, <1>5, <2>1, <2>2, <2>5, InterpretStep
  <2> QED
    BY <1>4, <1>7, <2>4, <2>5
<1> QED
  BY <1>6, <1>7

\* The runtime puts a host function, or the frame a native callee left behind, on
\* top of the Go loop.
LEMMA HandOverStep ==
  ASSUME NInv, HandleHostCall \/ FinishNested
  PROVE  NInv'
<1>1. ServesStub /\ SiteMatches /\ ~failing /\ control # <<>> /\ Top.kind \in Loops
  BY DEF HandleHostCall, FinishNested, ServesOp, ServesStub, Serves, TopIs
<1> DEFINE c == WaitAt(ctx.site)
<1>2. /\ Core(c, frames, open) /\ c # <<>> /\ Height(c) = Height(control)
      /\ \A i \in 1..Len(c) : c[i].kind # "native"
      /\ Suspended(c[Len(c)]) /\ c[Len(c)].kind \in Loops /\ c[Len(c)].site # 0
      /\ c[Len(c)].frame = Top.frame /\ Top.frame = Height(control)
      /\ \A ops : Served.op \in ops => C!IsAt(frames[Top.frame], ops)
  BY <1>1, Waiting
<1> HIDE DEF c
<1>3. /\ frames \in Seq(C!Frame) /\ Len(frames) <= MaxFrames /\ MaxFrames \in Nat
      /\ Top.frame \in Nat \ {0} /\ Top.frame <= Len(frames) /\ Len(frames) \in Nat
      /\ "nested" \notin ctx.flags => Len(frames) = Height(control)
  BY <1>1, Standing, NativeCallsAssumption DEF NativeCallsAssumption
<1>4. c[Len(c)].kind # "host"
  BY <1>2 DEF Loops
<1>5. ASSUME NEW a \in Activation, a.site = 0, Link(c[Len(c)], a),
             C!IsAt(frames[c[Len(c)].frame], CallOps(c[Len(c)], a))
      PROVE  /\ Core(Append(c, a), frames, open) /\ Append(c, a) # <<>>
             /\ Append(c, a)[Len(Append(c, a))] = a /\ Height(Append(c, a)) = a.frame
  <2>1. Len(frames) <= Len(frames) /\ Height(c) <= Len(frames)
    BY <1>2, <1>3
  <2> QED
    BY <1>2, <1>3, <1>5, <2>1, PushCore
<1>6. CASE HandleHostCall
  <2> DEFINE a == Act("host", Len(frames))
  <2>1. /\ control' = Append(c, a) /\ ctx' = NoExit /\ "nested" \notin ctx.flags
        /\ UNCHANGED <<program, frames, flags, compiled, open, failing>>
        /\ Served.op \in {"host"}
    BY <1>6 DEF HandleHostCall, ServesOp, c
  <2>2. a.kind = "host" /\ a.frame = Len(frames) /\ a.site = 0 /\ a \in Activation
    <3>1. Len(frames) \in 1..MaxFrames
      BY <1>3
    <3> QED
      BY <3>1 DEF Act, Activation
  <2> HIDE DEF a
  <2>3. Link(c[Len(c)], a) /\ C!IsAt(frames[c[Len(c)].frame], CallOps(c[Len(c)], a))
    BY <1>2, <1>3, <1>4, <2>1, <2>2 DEF Link, CallOps
  <2>4. /\ Core(control', frames', open') /\ Len(frames') = Height(control')
        /\ control'[Len(control')].site = 0
    BY <1>5, <2>1, <2>2, <2>3
  <2>5. FlagsOK' /\ compiled' \subseteq Supported /\ failing' \in BOOLEAN
    BY <2>1 DEF NInv, FlagsOK
  <2> QED
    BY <2>1, <2>4, <2>5, CalmInv
<1>7. CASE FinishNested
  <2>1. /\ "nested" \in ctx.flags /\ Served.op \in {"call", "tailcall"}
        /\ Len(frames) = Height(control) + 1
        /\ ctx.inner \in DOMAIN CodeOf(Len(frames)) /\ ctx.inner = frames[Len(frames)].pc
        /\ ctx.flags \cap {"nestedDeopt", "nestedError"} = {}
             => ctx.innerStub = StubOf(CodeOf(Len(frames))[ctx.inner].op)
    BY <1>7 DEF FinishNested, NInv, ExitSound
  <2>2. Len(frames) = Top.frame + 1 /\ Len(frames) # Top.frame
    BY <1>2, <1>3, <2>1
  <2> DEFINE a == Act("nested", Len(frames))
             t == CASE "nestedDeopt" \in ctx.flags -> "deopt"
                    [] "nestedError" \in ctx.flags -> "error"
                    [] OTHER -> "stub"
             x == [NoExit EXCEPT !.status = t, !.site = ctx.inner, !.stub = ctx.innerStub]
  <2>3. /\ control' = Append(c, a) /\ ctx' = x
        /\ UNCHANGED <<program, frames, flags, compiled, open, failing>>
    BY <1>7, <2>2 DEF FinishNested, c
  <2>4. a.kind = "nested" /\ a.frame = Len(frames) /\ a.site = 0 /\ a \in Activation
    <3>1. Len(frames) \in 1..MaxFrames
      BY <1>3, <2>1
    <3> QED
      BY <3>1 DEF Act, Activation
  <2> HIDE DEF a
  <2>5. Link(c[Len(c)], a)
    BY <1>2, <2>2, <2>4 DEF Link
  <2>6. C!IsAt(frames[c[Len(c)].frame], CallOps(c[Len(c)], a))
    <3>1. C!IsAt(frames[Top.frame], {"call", "tailcall"})
      BY <1>2, <2>1
    <3> QED
      BY <1>2, <1>4, <2>4, <3>1 DEF CallOps
  <2>7. /\ Core(control', frames', open') /\ Height(control') = Len(frames)
        /\ control' # <<>> /\ control'[Len(control')] = a
    BY <1>5, <2>3, <2>4, <2>5, <2>6
  <2>8. /\ x.site = ctx.inner /\ x.stub = ctx.innerStub /\ x.flags = {} /\ x \in Exit
        /\ x.status \in {"stub", "deopt", "error"}
        /\ x.status = "stub" => ctx.flags \cap {"nestedDeopt", "nestedError"} = {}
    <3>1. ctx.inner \in Nat /\ ctx.innerStub \in Stubs \cup {"none"}
      BY DEF NInv, Exit
    <3>2. /\ t \in {"stub", "deopt", "error"}
          /\ t = "stub" => ctx.flags \cap {"nestedDeopt", "nestedError"} = {}
      OBVIOUS
    <3> HIDE DEF t
    <3>3. x = [status |-> t, stub |-> ctx.innerStub, site |-> ctx.inner, flags |-> {},
               inner |-> 0, innerStub |-> "none"]
      <4>1. x = InnerExit(t, ctx.inner, ctx.innerStub)
        BY DEF InnerExit
      <4> HIDE DEF x
      <4> QED
        BY ZenonT(60), <4>1, ExitMade
    <3> HIDE DEF x
    <3> QED
      BY <3>1, <3>2, <3>3 DEF Exit
  <2> HIDE DEF x
  <2>9. ctx'.status # "none" /\ ctx'.status # "ok" /\ ctx'.flags = {} /\ ctx' \in Exit
    BY <2>3, <2>8
  <2>10. /\ ~failing' /\ TopIs(Loops)' /\ Top'.frame = Len(frames) /\ Top'.site = 0
    BY <1>1, <2>3, <2>4, <2>7 DEF TopIs, Top, Loops
  <2>11. /\ CodeOf(Top.frame)' = CodeOf(Len(frames))
         /\ (frames[Top.frame].pc)' = frames[Len(frames)].pc
    BY <2>3, <2>10 DEF CodeOf
  <2>12. /\ ctx'.site \in DOMAIN (CodeOf(Top.frame)') /\ (frames[Top.frame].pc)' = ctx'.site
    BY <2>1, <2>3, <2>8, <2>11
  <2>13. ctx'.status = "stub" => SiteMatches'
    BY <2>1, <2>3, <2>8, <2>11, <2>12 DEF SiteMatches
  <2>14. ExitSound'
    BY <2>9, <2>10, <2>12, <2>13 DEF ExitSound
  <2>15. (Len(frames) = Height(control) + (IF "nested" \in ctx.flags THEN 1 ELSE 0))'
    <3>1. Height(control)' = Height(control')
      BY DEF Height
    <3>2. Height(control)' = Len(frames) /\ Len(frames)' = Len(frames) /\ Len(frames) \in Nat
      BY <1>3, <2>3, <2>7, <3>1
    <3> QED
      BY <2>9, <3>2
  <2>16. Core(control, frames, open)'
    BY <2>3, <2>7, CoreNext
  <2>17. program' \in Programs /\ FlagsOK' /\ compiled' \subseteq Supported /\ failing' \in BOOLEAN
    BY <2>3 DEF NInv, FlagsOK
  <2> QED
    BY <2>9, <2>10, <2>14, <2>15, <2>16, <2>17 DEF NInv
<1> QED
  BY <1>6, <1>7

\* A host function was called by an instruction for it.
LEMMA AtHost ==
  ASSUME NInv, control # <<>>, Top.kind = "host"
  PROVE  C!IsAt(frames[Top.frame], {"host"})
<1>1. control \in Seq(Activation) /\ Stack(control, frames) /\ Top.frame = Height(control)
  BY Standing
<1>2. PICK c : c = SubSeq(control, 1, Len(control) - 1)
  OBVIOUS
<1>3. /\ c # <<>> /\ Height(c) = Height(control)
      /\ Called(c[Len(c)], Top) => C!IsAt(frames[Height(c)], CallOps(c[Len(c)], Top))
  BY <1>1, <1>2, HeightBelow DEF Top
<1>4. Called(c[Len(c)], Top) /\ CallOps(c[Len(c)], Top) = {"host"}
  BY DEF Called, CallOps
<1> QED
  BY <1>1, <1>3, <1>4

\* What runs outside native code: its frame is the thread's last, no exit is
\* pending, and there is no native code on the stack.
LEMMA Outside ==
  ASSUME NInv, ~failing, control # <<>>, Top.kind \in CanCall
  PROVE  /\ ctx = NoExit /\ "nested" \notin ctx.flags /\ Len(frames) = Height(control)
         /\ Top.frame = Len(frames) /\ Top.frame \in 1..MaxFrames /\ Len(control) \in Nat \ {0}
         /\ \A i \in 1..Len(control) : control[i].kind # "native"
         /\ Top.site = 0 /\ Suspended(Top)
         /\ Top.kind = "host" => C!IsAt(frames[Top.frame], {"host"})
<1>1. /\ ctx = NoExit /\ Len(frames) = Height(control) /\ Top.frame = Height(control)
      /\ Top.frame \in Nat \ {0} /\ Len(frames) <= MaxFrames /\ control \in Seq(Activation)
      /\ Stack(control, frames)
  BY Standing DEF CanCall, Loops
<1>2. Top.frame \in 1..MaxFrames /\ Len(control) \in Nat \ {0}
  BY <1>1, NativeCallsAssumption DEF NativeCallsAssumption
<1>3. \A i \in 1..Len(control) : control[i].kind # "native"
  <2>1. control[Len(control)].kind # "native"
    BY DEF Top, CanCall
  <2> QED
    BY <1>1, <2>1, NoNatives
<1>4. Top.site = 0 /\ Suspended(Top)
  BY DEF NInv, Suspended, CanCall, Loops
<1>5. Top.kind = "host" => C!IsAt(frames[Top.frame], {"host"})
  BY AtHost
<1>6. "nested" \notin ctx.flags
  BY <1>1, ExitFields
<1> QED
  BY <1>1, <1>2, <1>3, <1>4, <1>5, <1>6

\* The interpreter calls a function, a metamethod or a host function.
LEMMA InterpCallStep ==
  ASSUME NInv, InterpCall \/ InterpHostCall
  PROVE  NInv'
<1>1. /\ ~failing /\ control # <<>> /\ Top.kind \in Interpreters
  BY DEF InterpCall, InterpHostCall, Interpreting, TopIs
<1>2. Top.kind \in CanCall /\ Top.kind # "host"
  BY <1>1 DEF Interpreters, CanCall
<1>3. /\ ctx = NoExit /\ "nested" \notin ctx.flags /\ Len(frames) = Height(control)
      /\ Top.frame = Len(frames) /\ Top.frame \in 1..MaxFrames
      /\ \A i \in 1..Len(control) : control[i].kind # "native"
      /\ Top.site = 0 /\ Suspended(Top)
  BY <1>1, <1>2, Outside
<1>4. /\ Core(control, frames, open) /\ program \in Programs /\ frames[Top.frame] \in C!Frame
      /\ frames \in Seq(C!Frame) /\ Len(frames) <= MaxFrames
  BY <1>1, Standing
<1>5. CASE InterpCall
  <2>1. /\ Runs({"call", "tailcall", "meta"}) /\ Interpret(control, At(Top.frame).callee)
    BY <1>5 DEF InterpCall
  <2>2. At(Top.frame).callee \in Functions
    BY <1>4, <2>1, InstructionAt DEF Runs, At, CodeOf
  <2>3. C!IsAt(frames[Top.frame], {"call", "tailcall", "meta"})
    BY <2>1 DEF Runs, At, CodeOf, C!IsAt, C!OpOf, C!Code
  <2>4. /\ Suspended(control[Len(control)]) /\ control[Len(control)].kind # "host"
        /\ C!IsAt(frames[control[Len(control)].frame], {"call", "tailcall", "meta"})
    BY <1>2, <1>3, <2>3 DEF Top
  <2> QED
    BY <1>1, <1>3, <1>4, <2>1, <2>2, <2>4, InterpretStep
<1>6. CASE InterpHostCall
  <2> DEFINE a == Act("host", Len(frames))
  <2>1. /\ control' = Append(control, a) /\ Runs({"host"})
        /\ UNCHANGED <<program, frames, ctx, flags, compiled, open, failing>>
    BY <1>6 DEF InterpHostCall
  <2>2. a.kind = "host" /\ a.frame = Top.frame /\ a.site = 0 /\ a \in Activation
    BY <1>3 DEF Act, Activation
  <2>3. C!IsAt(frames[Top.frame], {"host"})
    BY <2>1 DEF Runs, At, CodeOf, C!IsAt, C!OpOf, C!Code
  <2> HIDE DEF a
  <2>4. /\ Link(control[Len(control)], a)
        /\ C!IsAt(frames[control[Len(control)].frame], CallOps(control[Len(control)], a))
    BY <1>2, <1>3, <2>2, <2>3 DEF Link, CallOps, Top
  <2>5. /\ Core(control', frames, open) /\ control' # <<>>
        /\ control'[Len(control')] = a /\ Height(control') = a.frame
    <3>1. Len(frames) <= Len(frames) /\ Height(control) <= Len(frames)
      BY <1>3, <1>4
    <3> QED
      BY <1>1, <1>3, <1>4, <2>1, <2>2, <2>4, <3>1, PushCore
  <2>6. /\ Core(control', frames', open') /\ Len(frames') = Height(control')
        /\ control'[Len(control')].site = 0 /\ ctx' = NoExit
    BY <1>3, <2>1, <2>2, <2>5
  <2>7. FlagsOK' /\ compiled' \subseteq Supported /\ failing' \in BOOLEAN
    BY <2>1 DEF NInv, FlagsOK
  <2> QED
    BY <2>1, <2>6, <2>7, CalmInv
<1> QED
  BY <1>5, <1>6

\* The host, or a host function, calls back.
LEMMA HostCallsStep ==
  ASSUME NInv, HostCalls
  PROVE  NInv'
<1>1. ~failing /\ (control = <<>> \/ Top.kind = "host")
  BY DEF HostCalls, InHost, TopIs
<1>2. PICK g \in Functions : \/ RuntimeCall(control, g)
                             \/ UNCHANGED compiled /\ Push(control, g, <<"guarded">>)
  BY Zenon DEF HostCalls
<1>3. /\ "nested" \notin ctx.flags /\ Len(frames) = Height(control)
      /\ \A i \in 1..Len(control) : control[i].kind # "native"
      /\ control # <<>> => Suspended(Top) /\ Top.kind = "host" /\ C!IsAt(frames[Top.frame], {"host"})
  <2>1. CASE control = <<>>
    <3>1. ctx = NoExit /\ Len(frames) = Height(control)
      BY <2>1, Standing
    <3> QED
      BY <2>1, <3>1, ExitFields
  <2>2. CASE control # <<>>
    <3>1. Top.kind = "host" /\ Top.kind \in CanCall
      BY <1>1, <2>2 DEF CanCall
    <3> QED
      BY <1>1, <2>2, <3>1, Outside
  <2> QED
    BY <2>1, <2>2
<1>4. Core(control, frames, open)
  BY Standing
<1>5. CASE RuntimeCall(control, g)
  <2>1. control # <<>> =>
          /\ Suspended(control[Len(control)])
          /\ control[Len(control)].kind = "host"
          /\ C!IsAt(frames[control[Len(control)].frame], {"host"})
    BY <1>3 DEF Top
  <2> QED
    BY <1>1, <1>3, <1>4, <1>5, <2>1, RuntimeCallStep
<1>6. CASE UNCHANGED compiled /\ Push(control, g, <<"guarded">>)
  <2>1. control # <<>> =>
          /\ Suspended(control[Len(control)])
          /\ C!IsAt(frames[control[Len(control)].frame],
                    IF control[Len(control)].kind = "host" THEN {"host"}
                    ELSE {"call", "tailcall", "meta"})
    BY <1>3 DEF Top
  <2>2. compiled' \subseteq Supported
    BY <1>6 DEF NInv
  <2> QED
    BY <1>1, <1>3, <1>4, <1>6, <2>1, <2>2, PushStep
<1> QED
  BY <1>2, <1>5, <1>6

\* An activation that works on its caller's frame leaves; so does one with a frame
\* of its own, together with the frame.
LEMMA LeaveCore ==
  ASSUME NInv, ctx = NoExit, control # <<>>, NEW c, c = Below
  PROVE  /\ c \in Seq(Activation)
         /\ Top.kind \in {"deopt", "host"} =>
              /\ c # <<>> /\ Height(c) = Len(frames) /\ Core(c, frames, open)
              /\ Link(c[Len(c)], Top)
         /\ Top.kind \in {"compiled", "nested", "interp", "guarded"} =>
              /\ Height(c) = Len(Popped) /\ Top.frame = Len(frames)
              /\ Core(c, Popped, open \ {Top.frame})
<1>1. /\ Core(control, frames, open) /\ Len(frames) = Height(control)
      /\ control \in Seq(Activation) /\ frames \in Seq(C!Frame) /\ Stack(control, frames)
      /\ Len(frames) <= MaxFrames /\ open \subseteq 1..Len(frames)
      /\ Top.frame = Height(control)
  BY Standing
<1>2. c = SubSeq(control, 1, Len(control) - 1)
  BY DEF Below
<1>3. /\ c \in Seq(Activation) /\ Height(control) \in Nat \ {0}
      /\ Top.kind \in {"compiled", "nested", "interp", "guarded"} => Height(c) = Height(control) - 1
      /\ Top.kind \in {"deopt", "host"} => c # <<>> /\ Height(c) = Height(control)
      /\ c # <<>> => Link(c[Len(c)], Top)
  BY ZenonT(60), <1>1, <1>2, HeightBelow DEF Top
<1>4. Top.kind \in {"deopt", "host"} => Core(c, frames, open)
  BY <1>1, <1>2, PopCore
<1>5. ASSUME Top.kind \in {"compiled", "nested", "interp", "guarded"}
      PROVE  Height(c) = Len(Popped) /\ Core(c, Popped, open \ {Top.frame})
  <2> DEFINE gs == Popped
  <2>1. PICK h \in Nat : h + 1 = Len(frames) /\ h = Height(c)
    BY <1>1, <1>3, <1>5
  <2>2. gs \in Seq(C!Frame) /\ Len(gs) = h /\ \A f \in 1..h : gs[f] = frames[f]
    BY <1>1, <2>1 DEF Popped
  <2> HIDE DEF gs
  <2>3. Len(gs) <= MaxFrames
    BY <1>1, <2>1, <2>2, NativeCallsAssumption DEF NativeCallsAssumption
  <2>4. open \ {Top.frame} \subseteq open /\ open \ {Top.frame} \subseteq 1..Len(gs)
    <3>1. Top.frame = h + 1 /\ open \subseteq 1..(h + 1) /\ Len(gs) = h
      BY <1>1, <2>1, <2>2
    <3>2. \A f \in 1..(h + 1) : f # h + 1 => f \in 1..h
      OBVIOUS
    <3> QED
      BY <3>1, <3>2
  <2>5. \A f \in 1..Height(c) : gs[f] = frames[f]
    BY <2>1, <2>2
  <2>6. Core(c, gs, open \ {Top.frame})
    BY <1>1, <1>2, <2>2, <2>3, <2>4, <2>5, PopCore
  <2> QED
    BY <2>1, <2>2, <2>6 DEF gs
<1> QED
  BY <1>1, <1>3, <1>4, <1>5

\* A host function returns to the Go loop or to the interpreter.
LEMMA HostReturnStep ==
  ASSUME NInv, HostReturn
  PROVE  NInv'
<1>1. /\ ~failing /\ control # <<>> /\ Top.kind = "host"
      /\ UNCHANGED <<program, compiled, open, failing>>
  BY DEF HostReturn, TopIs
<1>2. /\ ctx = NoExit /\ Len(frames) = Height(control)
      /\ frames \in Seq(C!Frame) /\ Len(frames) <= MaxFrames /\ open \subseteq 1..Len(frames)
      /\ program \in Programs /\ Top.frame = Len(frames) /\ Top.frame \in Nat \ {0}
      /\ frames[Top.frame] \in C!Frame /\ FlagsOK /\ compiled \subseteq Supported
      /\ failing \in BOOLEAN
  BY <1>1, Standing DEF Loops, NInv
<1> DEFINE c == Below
           b == c[Len(c)]
<1>3. /\ c \in Seq(Activation) /\ c # <<>> /\ Height(c) = Len(frames) /\ Core(c, frames, open)
      /\ Link(b, Top)
  BY <1>1, <1>2, LeaveCore
<1>4. /\ IF b.kind \in Loops THEN Resume(c, frames, b.site)
         ELSE /\ frames' = SetFrame(b.frame, C!Past(frames[b.frame]))
              /\ control' = c
              /\ UNCHANGED <<ctx, flags>>
  BY DEF HostReturn
<1> HIDE DEF c
<1>5. b \in Activation /\ b.site \in Nat /\ b.frame = Len(frames)
  <2>1. Len(c) \in 1..Len(c)
    BY <1>3
  <2>2. b \in Activation
    BY <1>3, <2>1
  <2> QED
    BY <1>3, <2>2 DEF Height, Activation
<1>6. Suspended(b) /\ b.kind # "host"
  BY <1>1, <1>3 DEF Link
<1>7. CASE b.kind \in Loops
  <2>1. /\ Resume(c, frames, b.site) /\ open' \subseteq 1..Len(frames)
        /\ compiled' \subseteq Supported /\ failing' \in BOOLEAN /\ program' = program
    BY <1>1, <1>2, <1>4, <1>7
  <2> QED
    BY <1>3, <1>5, <1>7, <2>1, ResumeStep
<1>8. CASE b.kind \notin Loops
  <2>1. b.kind # "native" /\ b.site = 0
    <3>1. b.kind # "native"
      BY <1>6, <1>8 DEF Suspended, CanCall
    <3>2. Len(c) \in 1..Len(c) /\ Stack(c, frames)
      BY <1>3 DEF Core
    <3> QED
      BY <1>8, <3>1, <3>2 DEF Stack
  <2> DEFINE h == Len(frames)
             x == C!Past(frames[h])
  <2>2. x \in C!Frame /\ h \in 1..Len(frames)
    BY <1>2, FrameMoves
  <2>3. /\ frames' = [frames EXCEPT ![h] = x] /\ control' = c /\ ctx' = NoExit /\ flags' = flags
    BY <1>2, <1>4, <1>5, <1>8 DEF SetFrame
  <2> HIDE DEF x
  <2>4. /\ frames' \in Seq(C!Frame) /\ Len(frames') = Len(frames)
        /\ \A f \in 1..h - 1 : frames'[f] = frames[f]
    BY <1>2, <2>2, <2>3, FrameSet
  <2>5. Core(c, frames', open)
    <3>1. Len(frames') <= MaxFrames /\ open \subseteq 1..Len(frames')
      BY <1>2, <2>4
    <3>2. \A f \in 1..Height(c) - 1 : frames'[f] = frames[f]
      BY <1>3, <2>4
    <3> QED
      BY <1>3, <1>6, <2>1, <2>4, <3>1, <3>2, MoveCore
  <2>6. /\ Core(control', frames', open') /\ Len(frames') = Height(control')
        /\ control'[Len(control')].site = 0
    BY <1>1, <1>3, <2>1, <2>3, <2>4, <2>5
  <2>7. FlagsOK' /\ compiled' \subseteq Supported /\ failing' \in BOOLEAN
    BY <1>1, <1>2, <2>3 DEF FlagsOK
  <2> QED
    BY <1>1, <2>3, <2>6, <2>7, CalmInv
<1> QED
  BY <1>7, <1>8

\* An error goes up one call at a time, to the host function or the host that
\* drops it.
LEMMA UnwindStep ==
  ASSUME NInv, \/ HostFail \/ InterpFail \/ UnwindCall \/ RestoreSnapshot \/ UnwindDeopt
               \/ HostHasError
  PROVE  NInv'
<1>1. ctx = NoExit
  <2>1. CASE HostFail \/ InterpFail
    BY <2>1, Standing DEF HostFail, InterpFail, Interpreting, TopIs, Interpreters, Loops
  <2>2. CASE UnwindCall \/ RestoreSnapshot \/ UnwindDeopt \/ HostHasError
    BY <2>2, Standing DEF UnwindCall, RestoreSnapshot, UnwindDeopt, HostHasError
  <2> QED
    BY <2>1, <2>2
<1>2. /\ Core(control, frames, open) /\ Len(frames) = Height(control)
      /\ FlagsOK /\ compiled \subseteq Supported /\ failing \in BOOLEAN /\ "nested" \notin ctx.flags
  BY <1>1, Standing, ExitFields DEF NInv
<1>3. CASE InterpFail
  <2>1. CASE Fails
    <3>1. Raise /\ compiled' \subseteq Supported
      BY <1>2, <2>1 DEF Fails
    <3> QED
      BY <1>2, <3>1, FailsStep
  <2>2. ASSUME NEW opened, opened \subseteq open \cup {Top.frame}, UpvaluesFail(opened)
        PROVE  NInv'
    <3>1. control # <<>> /\ Top.kind \in Loops \cup Interpreters
      BY <1>3 DEF InterpFail, Interpreting, TopIs
    <3> QED
      BY <1>2, <2>2, <3>1, UpvaluesFailStep
  <2>3. open \cup {Top.frame} \subseteq open \cup {Top.frame}
        /\ open \ {Top.frame} \subseteq open \cup {Top.frame}
    OBVIOUS
  <2> QED
    BY <1>3, <2>1, <2>2, <2>3 DEF InterpFail
<1>4. CASE HostFail \/ UnwindDeopt
  <2>1. /\ control # <<>> /\ Top.kind \in {"deopt", "host"} /\ failing' = TRUE
        /\ control' = Below /\ UNCHANGED <<program, frames, ctx, flags, compiled, open>>
    BY <1>2, <1>4 DEF HostFail, UnwindDeopt, TopIs
  <2>2. Height(Below) = Len(frames) /\ Core(Below, frames, open)
    BY <1>1, <2>1, LeaveCore
  <2>3. /\ Core(control', frames', open') /\ Len(frames') = Height(control')
        /\ ctx' = NoExit /\ FlagsOK' /\ compiled' \subseteq Supported
    BY <1>1, <1>2, <2>1, <2>2 DEF FlagsOK
  <2> QED
    BY <2>1, <2>3, CalmInv
<1>5. CASE UnwindCall \/ RestoreSnapshot
  <2>1. /\ control # <<>> /\ Top.kind \in {"compiled", "nested", "interp", "guarded"}
        /\ failing /\ control' = Below /\ UNCHANGED <<program, ctx, flags, compiled, failing>>
    BY <1>5 DEF UnwindCall, RestoreSnapshot, TopIs
  <2>2. /\ Height(Below) = Len(Popped) /\ Top.frame = Len(frames)
        /\ Core(Below, Popped, open \ {Top.frame})
    BY <1>1, <2>1, LeaveCore
  <2>3. frames' = Popped /\ open' = open \ {Top.frame}
    <3>1. CASE UnwindCall
      BY <3>1 DEF UnwindCall
    <3>2. CASE RestoreSnapshot
      <4>1. frames' = SubSeq(frames, 1, Top.frame - 1) /\ open' = open \ (Top.frame..MaxFrames)
        BY <3>2 DEF RestoreSnapshot
      <4>2. PICK n \in Nat : /\ n = Top.frame /\ n = Len(frames) /\ n <= MaxFrames
                              /\ open \subseteq 1..n /\ MaxFrames \in Nat
        BY <1>2, <2>2, NativeCallsAssumption DEF Core, NativeCallsAssumption
      <4>3. open \ (n..MaxFrames) = open \ {n}
        BY <4>2
      <4> QED
        BY <4>1, <4>2, <4>3 DEF Popped
    <3> QED
      BY <1>5, <3>1, <3>2
  <2>4. /\ Core(control', frames', open') /\ Len(frames') = Height(control')
        /\ ctx' = NoExit /\ FlagsOK' /\ compiled' \subseteq Supported /\ failing' = TRUE
    BY <1>1, <1>2, <2>1, <2>2, <2>3 DEF FlagsOK
  <2> QED
    BY <2>1, <2>4, CalmInv
<1>6. CASE HostHasError
  <2>1. UNCHANGED <<program, frames, ctx, flags, compiled, open>>
    BY <1>6 DEF HostHasError
  <2>2. ctx' = NoExit /\ FlagsOK' /\ compiled' \subseteq Supported
    BY <1>1, <1>2, <2>1 DEF FlagsOK
  <2>3. CASE failing' = FALSE /\ control' = control
    <3>1. Core(control', frames', open') /\ Len(frames') = Height(control')
      BY <1>2, <2>1, <2>3
    <3>2. control # <<>> => control[Len(control)].site = 0
      <4> SUFFICES ASSUME control # <<>> PROVE control[Len(control)].site = 0
        OBVIOUS
      <4>1. control[Len(control)].kind = "host"
        BY <1>6 DEF HostHasError, TopIs, Top
      <4>2. Stack(control, frames) /\ Len(control) \in 1..Len(control)
        BY Standing
      <4> QED
        BY <4>1, <4>2 DEF Stack, Loops
    <3> QED
      BY <2>1, <2>2, <2>3, <3>1, <3>2, CalmInv
  <2>4. CASE control # <<>> /\ control' = Below /\ failing' = failing
    <3>1. Top.kind \in {"deopt", "host"} /\ failing
      BY <1>6, <2>4 DEF HostHasError, TopIs
    <3>2. Height(Below) = Len(frames) /\ Core(Below, frames, open)
      BY <1>1, <2>4, <3>1, LeaveCore
    <3>3. /\ Core(control', frames', open') /\ Len(frames') = Height(control')
          /\ failing' = TRUE
      BY <1>2, <2>1, <2>4, <3>1, <3>2
    <3> QED
      BY <2>1, <2>2, <3>3, CalmInv
  <2> QED
    BY <1>6, <2>3, <2>4 DEF HostHasError
<1> QED
  BY <1>3, <1>4, <1>5, <1>6

-----------------------------------------------------------------------------
(* The steps of native code                                                *)

\* Native code was entered by a Go loop on the same frame, or called from code
\* that was; the Go loop is the activation LoopIndex chooses.
LEMMA LoopBelow ==
  ASSUME NInv, control # <<>>, Top.kind = "native"
  PROVE  /\ Natives \in {1, 2} /\ LoopIndex \in 1..Len(control) - 1
         /\ LoopIndex = Len(control) - Natives /\ Len(control) \in Nat
         /\ control[LoopIndex].kind \in Loops /\ control[LoopIndex].site = 0
         /\ \A i \in 1..LoopIndex : control[i].kind # "native"
         /\ Natives = 1 => control[LoopIndex].frame = Top.frame
         /\ Natives = 2 => LET b == control[Len(control) - 1]
                           IN  /\ b.kind = "native" /\ b.site # 0 /\ b.site = frames[b.frame].pc
                               /\ Top.frame = b.frame + 1 /\ b.frame = control[LoopIndex].frame
                               /\ C!IsAt(frames[b.frame], {"call", "tailcall"})
<1>1. PICK n \in Nat : n = Len(control) /\ n \in 1..n /\ Top = control[n]
  BY Standing DEF Top
<1>2. Stack(control, frames) /\ \A j \in 1..n : control[j] \in Activation
  BY <1>1, Standing
<1>3. "native" \notin Loops /\ Loops \cap {"guarded"} = {}
  BY DEF Loops
<1>4. n # 1
  <2>1. n = 1 => control[n].kind \in {"compiled", "guarded"}
    BY <1>1, <1>2 DEF Stack
  <2> QED
    BY <1>1, <2>1
<1>5. PICK m \in Nat : n = m + 1 /\ m \in 1..n - 1 /\ m \in 1..n
  BY <1>1, <1>4
<1>6. PICK b \in Activation : b = control[m]
  BY <1>2, <1>5
<1>7. Link(b, Top) /\ (Called(b, Top) => C!IsAt(frames[b.frame], CallOps(b, Top)))
  BY <1>1, <1>2, <1>5, <1>6 DEF Stack
<1>8. \A i, j \in 1..n : i <= j /\ control[i].kind = "native" => control[j].kind = "native"
  BY <1>1, <1>2 DEF Stack
<1> DEFINE P(i) == /\ control[i].kind \in Loops
                   /\ \A j \in i + 1..Len(control) : control[j].kind = "native"
<1>9. ASSUME NEW w \in 1..n - 1, P(w)
      PROVE  LoopIndex = w /\ \A i \in 1..w : control[i].kind # "native"
  <2>1. w \in DOMAIN control
    BY <1>1, Standing
  <2>2. LoopIndex \in DOMAIN control /\ P(LoopIndex)
    BY <1>9, <2>1 DEF LoopIndex
  <2>3. PICK l \in 1..n : l = LoopIndex
    BY <1>1, <2>2, Standing
  <2>4. ~(l < w)
    <3>1. l < w => w \in l + 1..n
      BY <1>1
    <3> QED
      BY <1>1, <1>3, <1>9, <2>2, <2>3, <3>1
  <2>5. ~(w < l)
    <3>1. w < l => l \in w + 1..n
      BY <1>1
    <3> QED
      BY <1>1, <1>3, <1>9, <2>2, <2>3, <3>1
  <2>6. l = w
    BY <1>1, <2>4, <2>5
  <2>7. \A i \in 1..w : i \in 1..n /\ w \in 1..n /\ i <= w
    BY <1>1
  <2> QED
    BY <1>3, <1>8, <1>9, <2>3, <2>6, <2>7
<1>10. CASE b.kind # "native"
  <2>1. b.kind \in Loops /\ b.site = 0 /\ b.frame = Top.frame
    BY <1>7, <1>10 DEF Link
  <2>2. P(m)
    <3>1. \A j \in m + 1..n : j = n
      BY <1>5
    <3> QED
      BY <1>1, <1>6, <2>1, <3>1
  <2>3. LoopIndex = m /\ \A i \in 1..m : control[i].kind # "native"
    BY <1>5, <1>9, <2>2
  <2>4. Natives = 1
    BY <1>1, <1>5, <2>3 DEF Natives
  <2> QED
    BY <1>1, <1>5, <1>6, <2>1, <2>3, <2>4
<1>11. CASE b.kind = "native"
  <2>1. b.site # 0 /\ Top.frame = b.frame + 1
    BY <1>3, <1>7, <1>11 DEF Link
  <2>2. b.site = frames[b.frame].pc
    BY <1>1, <1>2, <1>5, <1>6, <2>1 DEF Stack
  <2>3. C!IsAt(frames[b.frame], {"call", "tailcall"})
    <3>1. Called(b, Top)
      BY <2>1 DEF Called, Activation
    <3> QED
      BY <1>7, <1>11, <3>1 DEF CallOps
  <2>4. m # 1
    <3>1. m = 1 => b.kind \in {"compiled", "guarded"}
      BY <1>1, <1>2, <1>6 DEF Stack
    <3> QED
      BY <1>11, <3>1
  <2>5. PICK k \in Nat : m = k + 1 /\ k \in 1..n - 1 /\ k \in 1..n - 2 /\ k \in 1..n
    BY <1>5, <2>4
  <2>6. PICK a \in Activation : a = control[k]
    BY <1>2, <2>5
  <2>7. Link(a, b) /\ a.kind # "native"
    BY <1>1, <1>2, <1>6, <2>5, <2>6 DEF Stack
  <2>8. a.kind \in Loops /\ a.site = 0 /\ b.frame = a.frame
    BY <1>11, <2>7 DEF Link
  <2>9. P(k)
    <3>1. \A j \in k + 1..n : j = n \/ j = m
      BY <1>5, <2>5
    <3> QED
      BY <1>1, <1>6, <1>11, <2>6, <2>8, <3>1
  <2>10. LoopIndex = k /\ \A i \in 1..k : control[i].kind # "native"
    BY <1>9, <2>5, <2>9
  <2>11. Natives = 2
    BY <1>1, <1>5, <2>5, <2>10 DEF Natives
  <2>12. Len(control) - 1 = m /\ n - 1 = m /\ n - 2 = k
    BY <1>1, <1>5, <2>5
  <2> QED
    BY <1>1, <1>5, <1>6, <1>11, <2>1, <2>2, <2>3, <2>5, <2>6, <2>8, <2>10, <2>11, <2>12
<1> QED
  BY <1>10, <1>11

\* A prefix of a sequence.
LEMMA PrefixOf ==
  ASSUME NEW S, NEW s \in Seq(S), NEW l \in 0..Len(s)
  PROVE  /\ SubSeq(s, 1, l) \in Seq(S) /\ Len(SubSeq(s, 1, l)) = l
         /\ \A i \in 1..l : SubSeq(s, 1, l)[i] = s[i]
OBVIOUS

\* The native activations leave, and the Go loop below them is on top again, its
\* frame perhaps not as they found it.
LEMMA CutCore ==
  ASSUME NInv, control # <<>>, Top.kind = "native",
         NEW c, c = SubSeq(control, 1, LoopIndex),
         NEW gs \in Seq(C!Frame), Len(gs) <= MaxFrames,
         \A f \in 1..control[LoopIndex].frame - 1 : gs[f] = frames[f],
         open \subseteq 1..Len(gs)
  PROVE  /\ Core(c, gs, open) /\ c # <<>> /\ c[Len(c)] = control[LoopIndex]
         /\ Height(c) = control[LoopIndex].frame
<1>1. PICK n \in Nat, l \in Nat :
        /\ n = Len(control) /\ l = LoopIndex /\ l \in 1..n - 1 /\ l = n - Natives
        /\ Natives \in {1, 2}
  BY LoopBelow
<1>2. /\ control \in Seq(Activation) /\ Core(control, frames, open) /\ frames \in Seq(C!Frame)
      /\ open \subseteq 1..Len(frames) /\ Len(frames) <= MaxFrames
  BY Standing
<1>3. control[l].kind \in Loops /\ control[l].site = 0
  BY <1>1, LoopBelow
<1> DEFINE d == SubSeq(control, 1, n - 1)
<1>4. d \in Seq(Activation) /\ Len(d) = n - 1 /\ \A i \in 1..n - 1 : d[i] = control[i]
  BY <1>1, <1>2
<1>5. Core(d, frames, open)
  <2>1. PICK e : e = d
    OBVIOUS
  <2>2. e = SubSeq(control, 1, Len(control) - 1)
    BY <1>1, <2>1
  <2> HIDE DEF d
  <2>3. Core(e, frames, open)
    BY <1>2, <2>2, PopCore
  <2> QED
    BY <2>1, <2>3
<1> HIDE DEF d
<1>6. /\ c \in Seq(Activation) /\ Len(c) = l /\ c # <<>>
      /\ \A i \in 1..l : c[i] = control[i]
  <2>1. c = SubSeq(control, 1, l) /\ l # 0 /\ l <= Len(control)
    BY <1>1
  <2>2. /\ SubSeq(control, 1, l) \in Seq(Activation) /\ Len(SubSeq(control, 1, l)) = l
        /\ \A i \in 1..l : SubSeq(control, 1, l)[i] = control[i]
    BY <1>1, <1>2, PrefixOf
  <2>3. c = SubSeq(control, 1, l)
    BY <2>1
  <2>4. c \in Seq(Activation) /\ Len(c) = l /\ \A i \in 1..l : c[i] = control[i]
    BY <2>2, <2>3, Zenon
  <2>5. c # <<>>
    BY <2>1, <2>4
  <2> QED
    BY <2>4, <2>5
<1>7. Core(c, frames, open)
  <2>1. CASE Natives = 1
    <3>1. c = d
      BY <1>1, <2>1 DEF d
    <3> QED
      BY <1>5, <3>1
  <2>2. CASE Natives = 2
    <3>1. l = (n - 1) - 1 /\ 1..l \subseteq 1..n - 1 /\ d # <<>>
      BY <1>1, <1>4, <2>2
    <3>2. PICK e : e = SubSeq(d, 1, Len(d) - 1)
      OBVIOUS
    <3>3. Core(e, frames, open)
      BY <1>2, <1>5, <3>1, <3>2, PopCore
    <3>4. e \in Seq(Activation) /\ Len(e) = l /\ \A i \in 1..l : e[i] = d[i]
      BY <1>1, <1>4, <3>1, <3>2
    <3>5. \A i \in 1..l : e[i] = c[i]
      BY <1>4, <1>6, <3>1, <3>4
    <3>6. e = c
      BY <1>6, <3>4, <3>5, SeqEqual
    <3> QED
      BY <3>3, <3>6
  <2> QED
    BY <1>1, <2>1, <2>2
<1>8. c[Len(c)] = control[l] /\ Height(c) = control[l].frame
  BY <1>1, <1>6 DEF Height
<1>9. Core(c, gs, open)
  <2>1. /\ c[Len(c)].kind # "host" /\ c[Len(c)].kind # "native" /\ c[Len(c)].site = 0
        /\ \A f \in 1..Height(c) - 1 : gs[f] = frames[f]
    BY <1>1, <1>3, <1>8 DEF Loops
  <2> QED
    BY <1>6, <1>7, <2>1, MoveCore
<1> QED
  BY <1>1, <1>6, <1>8, <1>9

\* After a step that leaves an exit for the Go loop.
LEMMA ExitInv ==
  ASSUME NInv, program' = program, failing' = FALSE, FlagsOK', compiled' \subseteq Supported,
         Core(control', frames', open'), control' # <<>>,
         NEW b, b = control'[Len(control')], b.kind \in Loops, b.site = 0,
         NEW x, x = frames'[b.frame],
         Len(frames') = Height(control') + (IF "nested" \in ctx'.flags THEN 1 ELSE 0),
         ctx' \in Exit, ctx'.status \in {"stub", "deopt", "error"},
         ctx'.site \in DOMAIN program[x.fn],
         x.pc = IF "safepoint" \in ctx'.flags THEN ctx'.site + 1 ELSE ctx'.site,
         ctx'.status = "stub" => StubOf(program[x.fn][ctx'.site].op) = ctx'.stub,
         ctx'.status # "stub" => ctx'.flags = {},
         "marking" \in ctx'.flags =>
           program[x.fn][ctx'.site].op = "setupval" /\ "safepoint" \notin ctx'.flags,
         "nested" \in ctx'.flags =>
           /\ ctx'.flags \cap {"marking", "safepoint"} = {}
           /\ program[x.fn][ctx'.site].op \in {"call", "tailcall"}
           /\ ctx'.inner \in DOMAIN program[frames'[Len(frames')].fn]
           /\ ctx'.inner = frames'[Len(frames')].pc
           /\ ctx'.flags \cap {"nestedDeopt", "nestedError"} = {}
                => ctx'.innerStub = StubOf(program[frames'[Len(frames')].fn][ctx'.inner].op)
  PROVE  NInv'
<1>1. Core(control, frames, open)'
  BY CoreNext
<1>2. Top' = b /\ TopIs(Loops)' /\ ~failing'
  BY DEF Top, TopIs
<1>3. /\ CodeOf(Top.frame)' = program[x.fn] /\ frames'[Top'.frame] = x
      /\ CodeOf(Len(frames))' = program[frames'[Len(frames')].fn]
  BY <1>2 DEF CodeOf
<1>4. Served' = program[x.fn][ctx'.site]
  BY <1>3 DEF Served
<1>5. ctx'.status = "stub" => SiteMatches'
  BY <1>3 DEF SiteMatches
<1>6. ctx'.status # "none" /\ ctx'.status # "ok"
  OBVIOUS
<1>7. ExitSound'
  BY <1>2, <1>3, <1>4, <1>5, <1>6 DEF ExitSound
<1>8. Height(control)' = Height(control')
  BY DEF Height
<1>9. (Len(frames) = Height(control) + (IF "nested" \in ctx.flags THEN 1 ELSE 0))'
  BY <1>8
<1>10. program' \in Programs /\ failing' \in BOOLEAN /\ Top'.site = 0
  BY <1>2 DEF NInv
<1> QED
  BY <1>1, <1>7, <1>9, <1>10 DEF NInv

\* An instruction has a stub.
LEMMA StubsTyped ==
  ASSUME NEW op \in C!Ops
  PROVE  StubOf(op) \in Stubs
BY DEF C!Ops, StubOf, Stubs

\* The exits of one activation say where its frame stands, and at what.
LEMMA ExitsTyped ==
  ASSUME NInv, control # <<>>, Top.kind = "native", NEW exit \in ExitsAt(Top.frame)
  PROVE  LET x == frames[Top.frame]
         IN  /\ exit \in Exit /\ exit.status \in {"stub", "deopt", "error"}
             /\ exit.site = x.pc /\ x.pc \in DOMAIN program[x.fn]
             /\ exit.status = "stub" => exit.stub = StubOf(program[x.fn][x.pc].op)
             /\ \/ exit.flags = {}
                \/ /\ exit.flags = {"marking"} /\ exit.status = "stub"
                   /\ program[x.fn][x.pc].op = "setupval"
<1> DEFINE f == Top.frame
           x == frames[f]
           s == x.pc
           op == program[x.fn][x.pc].op
<1>1. program \in Programs /\ x \in C!Frame /\ s \in Nat
  BY Standing DEF C!Frame
<1>2. At(f).op = op /\ (\A ops : Runs(ops) <=> ~C!AtEnd(x) /\ op \in ops)
  BY DEF At, CodeOf, Runs
<1>3. ~C!AtEnd(x)
  BY <1>2 DEF ExitsAt
<1>4. s \in DOMAIN program[x.fn] /\ op \in C!Ops
  BY <1>1, <1>3, InstructionAt
<1>5. StubOf(op) \in Stubs
  BY <1>4, StubsTyped
<1>6. \/ exit = StubExit(s, StubOf(op), {})
      \/ exit = StatusExit("deopt", s)
      \/ exit = StatusExit("error", s)
      \/ op = "setupval" /\ exit = StubExit(s, "setupval", {"marking"})
  <2>1. /\ At(f).op = op /\ f = Top.frame
    BY <1>2
  <2>2. \E ops : Runs(ops)
    BY <1>2, <1>3
  <2> QED
    BY <1>2, <1>3 DEF ExitsAt, StatusExit
<1>7. StubOf("setupval") = "setupval"
  BY DEF StubOf
<1> HIDE DEF op, s
<1>8. /\ exit.status \in {"stub", "deopt", "error"} /\ exit.site = s /\ exit \in Exit
      /\ exit.status = "stub" => exit.stub = StubOf(op)
      /\ \/ exit.flags = {}
         \/ exit.flags = {"marking"} /\ exit.status = "stub" /\ op = "setupval"
  <2>1. CASE exit = StubExit(s, StubOf(op), {})
    <3>1. exit = [status |-> "stub", stub |-> StubOf(op), site |-> s, flags |-> {},
                  inner |-> 0, innerStub |-> "none"]
      BY <2>1, ExitMade
    <3>2. exit \in Exit
      BY <1>1, <1>5, <3>1 DEF Exit
    <3>3. exit.status = "stub" /\ exit.site = s /\ exit.stub = StubOf(op) /\ exit.flags = {}
      BY <3>1
    <3> QED
      BY <3>2, <3>3
  <2>2. ASSUME NEW t \in {"deopt", "error"}, exit = StatusExit(t, s)
        PROVE  exit.status = t /\ exit.site = s /\ exit \in Exit /\ exit.flags = {}
    <3>1. exit = [status |-> t, stub |-> "none", site |-> s, flags |-> {},
                  inner |-> 0, innerStub |-> "none"]
      BY <2>2, ExitMade
    <3> QED
      BY <1>1, <2>2, <3>1 DEF Exit
  <2>3. CASE op = "setupval" /\ exit = StubExit(s, "setupval", {"marking"})
    <3>1. exit = [status |-> "stub", stub |-> "setupval", site |-> s, flags |-> {"marking"},
                  inner |-> 0, innerStub |-> "none"]
      BY <2>3, ExitMade
    <3>2. "setupval" \in Stubs
      BY DEF Stubs
    <3> QED
      BY <1>1, <1>7, <2>3, <3>1, <3>2 DEF Exit
  <2>5. CASE exit = StatusExit("deopt", s)
    <3>1. exit.status = "deopt" /\ exit.site = s /\ exit \in Exit /\ exit.flags = {}
      BY <2>2, <2>5
    <3> QED
      BY <3>1
  <2>6. CASE exit = StatusExit("error", s)
    <3>1. exit.status = "error" /\ exit.site = s /\ exit \in Exit /\ exit.flags = {}
      BY <2>2, <2>6
    <3> QED
      BY <3>1
  <2> QED
    BY <1>6, <2>1, <2>3, <2>5, <2>6
<1> QED
  BY <1>4, <1>8 DEF op, s

\* Where native code runs.
LEMMA NativeStanding ==
  ASSUME NInv, InNative
  PROVE  /\ control # <<>> /\ Top.kind = "native" /\ ctx = NoExit /\ failing = FALSE
         /\ Len(frames) = Height(control) /\ Top.frame = Len(frames)
         /\ Top.frame \in 1..Len(frames) /\ Top.site = 0
         /\ frames[Top.frame] \in C!Frame
<1>1. control # <<>> /\ Top.kind = "native" /\ ~failing
  BY DEF InNative, TopIs
<1>2. ctx = NoExit
  BY <1>1, Standing DEF Loops
<1>3. failing = FALSE /\ Top.site = 0
  BY <1>1 DEF NInv
<1>4. Len(frames) = Height(control) /\ Top.frame = Height(control) /\ Top.frame \in Nat \ {0}
  BY <1>1, <1>2, Standing
<1>5. frames[Top.frame] \in C!Frame
  BY <1>1, Standing
<1> QED
  BY <1>1, <1>2, <1>3, <1>4, <1>5

\* Native code returns to its Go loop.
LEMMA NativeReturnStep ==
  ASSUME NInv, NativeReturn
  PROVE  NInv'
<1>1. /\ InNative /\ C!AtEnd(frames[Top.frame]) /\ Natives = 1 /\ control' = Below /\ ctx' = Ok
      /\ UNCHANGED <<program, frames, flags, compiled, open, failing>>
  BY DEF NativeReturn
<1>2. /\ control # <<>> /\ Top.kind = "native" /\ failing = FALSE /\ Top.frame = Len(frames)
  BY <1>1, NativeStanding
<1>3. /\ frames \in Seq(C!Frame) /\ Len(frames) <= MaxFrames /\ open \subseteq 1..Len(frames)
  BY Standing
<1>4. /\ LoopIndex = Len(control) - 1 /\ control[LoopIndex].frame = Top.frame
      /\ control[LoopIndex].kind \in Loops /\ control[LoopIndex].site = 0
  BY <1>1, <1>2, LoopBelow
<1>5. PICK c : c = Below /\ c = SubSeq(control, 1, LoopIndex)
  BY <1>4 DEF Below
<1>6. /\ Core(c, frames, open) /\ c # <<>> /\ c[Len(c)] = control[LoopIndex]
      /\ Height(c) = control[LoopIndex].frame
  BY <1>2, <1>3, <1>5, CutCore
<1>7. FlagsOK' /\ compiled' \subseteq Supported /\ failing' = FALSE /\ program' = program
  BY <1>1, <1>2 DEF NInv, FlagsOK
<1>8. /\ Core(control', frames', open') /\ Len(frames') = Height(control') /\ control' # <<>>
      /\ control'[Len(control')].kind \in Loops /\ control'[Len(control')].site = 0
      /\ C!AtEnd(frames'[control'[Len(control')].frame])
  BY <1>1, <1>2, <1>4, <1>5, <1>6
<1> QED
  BY <1>1, <1>7, <1>8, OkInv

\* Native code that a Go loop entered leaves for the runtime.
LEMMA DirectExitStep ==
  ASSUME NInv, NativeExit(1)
  PROVE  NInv'
<1>1. /\ InNative /\ Natives = 1 /\ UNCHANGED frames
  BY DEF NativeExit
<1>2. PICK exit \in ExitsAt(Top.frame) : Leave(1, exit)
  BY DEF NativeExit
<1>3. /\ ctx' = exit /\ control' = SubSeq(control, 1, LoopIndex)
      /\ UNCHANGED <<program, flags, compiled, open, failing>>
  BY <1>2 DEF Leave, Published
<1>4. /\ control # <<>> /\ Top.kind = "native" /\ failing = FALSE /\ Top.frame = Len(frames)
  BY <1>1, NativeStanding
<1>5. /\ frames \in Seq(C!Frame) /\ Len(frames) <= MaxFrames /\ open \subseteq 1..Len(frames)
  BY Standing
<1>6. /\ control[LoopIndex].frame = Top.frame
      /\ control[LoopIndex].kind \in Loops /\ control[LoopIndex].site = 0
  BY <1>1, <1>4, LoopBelow
<1>7. PICK c : c = control' /\ c = SubSeq(control, 1, LoopIndex)
  BY <1>3
<1>8. /\ Core(c, frames, open) /\ c # <<>> /\ c[Len(c)] = control[LoopIndex]
      /\ Height(c) = control[LoopIndex].frame
  BY <1>4, <1>5, <1>7, CutCore
<1>9. PICK b : b = control[LoopIndex]
  OBVIOUS
<1>10. PICK x : x = frames[Top.frame]
  OBVIOUS
<1>11. /\ exit \in Exit /\ exit.status \in {"stub", "deopt", "error"}
       /\ exit.site = x.pc /\ x.pc \in DOMAIN program[x.fn]
       /\ exit.status = "stub" => exit.stub = StubOf(program[x.fn][x.pc].op)
       /\ \/ exit.flags = {}
          \/ /\ exit.flags = {"marking"} /\ exit.status = "stub"
             /\ program[x.fn][x.pc].op = "setupval"
  BY <1>4, <1>10, ExitsTyped
<1>12. FlagsOK' /\ compiled' \subseteq Supported /\ failing' = FALSE /\ program' = program
  BY <1>3, <1>4 DEF NInv, FlagsOK
<1>13. /\ Core(control', frames', open') /\ control' # <<>>
       /\ b = control'[Len(control')] /\ b.kind \in Loops /\ b.site = 0
       /\ x = frames'[b.frame] /\ Len(frames') = Height(control')
  BY <1>1, <1>3, <1>4, <1>6, <1>7, <1>8, <1>9, <1>10
<1>14. "safepoint" \notin ctx'.flags /\ "nested" \notin ctx'.flags
  BY <1>3, <1>11
<1>15. /\ ctx'.site = x.pc /\ ctx' \in Exit /\ ctx'.status \in {"stub", "deopt", "error"}
       /\ ctx'.status # "stub" => ctx'.flags = {}
       /\ "marking" \in ctx'.flags => program[x.fn][ctx'.site].op = "setupval"
       /\ ctx'.site \in DOMAIN program[x.fn]
       /\ ctx'.status = "stub" => StubOf(program[x.fn][ctx'.site].op) = ctx'.stub
  BY <1>3, <1>11
<1>16. /\ x.pc = IF "safepoint" \in ctx'.flags THEN ctx'.site + 1 ELSE ctx'.site
       /\ Len(frames') = Height(control') + (IF "nested" \in ctx'.flags THEN 1 ELSE 0)
       /\ "marking" \in ctx'.flags =>
            program[x.fn][ctx'.site].op = "setupval" /\ "safepoint" \notin ctx'.flags
  <2>1. Height(control') \in Nat
    BY <1>13, <1>5, <1>1
  <2>2. x.pc = IF "safepoint" \in ctx'.flags THEN ctx'.site + 1 ELSE ctx'.site
    BY <1>14, <1>15
  <2>3. Len(frames') = Height(control') + (IF "nested" \in ctx'.flags THEN 1 ELSE 0)
    BY <1>13, <1>14, <2>1
  <2> QED
    BY <1>14, <1>15, <2>2, <2>3
<1>17. "nested" \in ctx'.flags =>
           /\ ctx'.flags \cap {"marking", "safepoint"} = {}
           /\ program[x.fn][ctx'.site].op \in {"call", "tailcall"}
           /\ ctx'.inner \in DOMAIN program[frames'[Len(frames')].fn]
           /\ ctx'.inner = frames'[Len(frames')].pc
           /\ ctx'.flags \cap {"nestedDeopt", "nestedError"} = {}
                => ctx'.innerStub = StubOf(program[frames'[Len(frames')].fn][ctx'.inner].op)
  BY <1>14
<1> QED
  BY <1>12, <1>13, <1>15, <1>16, <1>17, ExitInv

\* What a native caller makes of an exit of its callee.
LEMMA PublishedByCaller ==
  ASSUME NEW exit, NEW outer, outer = control[LoopIndex + 1],
         NEW op, op = CodeOf(outer.frame)[outer.site].op
  PROVE  Published(2, exit) =
           [status |-> "stub", stub |-> StubOf(op), site |-> outer.site,
            flags |-> {"nested"} \cup (CASE exit.status = "deopt" -> {"nestedDeopt"}
                                        [] exit.status = "error" -> {"nestedError"}
                                        [] OTHER -> {}),
            inner |-> exit.site, innerStub |-> exit.stub]
BY DEF Published

\* A native callee leaves, and its native caller for it.
LEMMA NestedExitStep ==
  ASSUME NInv, NativeExit(2)
  PROVE  NInv'
<1>1. /\ InNative /\ Natives = 2 /\ UNCHANGED frames
  BY DEF NativeExit
<1>2. PICK exit \in ExitsAt(Top.frame) : Leave(2, exit)
  BY DEF NativeExit
<1>3. /\ ctx' = Published(2, exit) /\ control' = SubSeq(control, 1, LoopIndex)
      /\ UNCHANGED <<program, flags, compiled, open, failing>>
  BY <1>2 DEF Leave
<1>4. /\ control # <<>> /\ Top.kind = "native" /\ failing = FALSE /\ Top.frame = Len(frames)
      /\ Top.frame \in 1..Len(frames)
  BY <1>1, NativeStanding
<1>5. /\ frames \in Seq(C!Frame) /\ Len(frames) <= MaxFrames /\ open \subseteq 1..Len(frames)
      /\ program \in Programs /\ control \in Seq(Activation)
  BY Standing
<1>6. /\ control[LoopIndex].kind \in Loops /\ control[LoopIndex].site = 0
      /\ LoopIndex + 1 = Len(control) - 1 /\ Len(control) - 1 \in 1..Len(control)
  BY <1>1, <1>4, LoopBelow
<1>7. PICK o \in Activation : o = control[Len(control) - 1]
  BY <1>5, <1>6
<1>8. /\ o.site # 0 /\ o.site = frames[o.frame].pc /\ Top.frame = o.frame + 1
      /\ o.frame = control[LoopIndex].frame /\ o.frame \in Nat \ {0}
      /\ C!IsAt(frames[o.frame], {"call", "tailcall"})
  <2>1. /\ o.site # 0 /\ o.site = frames[o.frame].pc /\ Top.frame = o.frame + 1
        /\ o.frame = control[LoopIndex].frame
        /\ C!IsAt(frames[o.frame], {"call", "tailcall"})
    BY <1>1, <1>4, <1>7, LoopBelow
  <2>2. o.frame \in Nat \ {0}
    BY <1>5, <1>6, <1>7, ActivationFrame
  <2> QED
    BY <2>1, <2>2
<1>9. PICK c : c = control' /\ c = SubSeq(control, 1, LoopIndex)
  BY <1>3
<1>10. /\ Core(c, frames, open) /\ c # <<>> /\ c[Len(c)] = control[LoopIndex]
       /\ Height(c) = control[LoopIndex].frame
  BY <1>4, <1>5, <1>9, CutCore
<1>11. PICK b : b = control[LoopIndex]
  OBVIOUS
<1>12. PICK x \in C!Frame : x = frames[o.frame]
  <2>1. o.frame \in 1..Len(frames)
    BY <1>4, <1>8
  <2> QED
    BY <1>5, <2>1
<1>13. PICK y : y = frames[Top.frame]
  OBVIOUS
<1>14. /\ exit \in Exit /\ exit.status \in {"stub", "deopt", "error"}
       /\ exit.site = y.pc /\ y.pc \in DOMAIN program[y.fn]
       /\ exit.status = "stub" => exit.stub = StubOf(program[y.fn][y.pc].op)
       /\ \/ exit.flags = {}
          \/ /\ exit.flags = {"marking"} /\ exit.status = "stub"
             /\ program[y.fn][y.pc].op = "setupval"
  BY <1>4, <1>13, ExitsTyped
<1>15. PICK op : op = program[x.fn][x.pc].op
  OBVIOUS
<1>16. /\ op \in {"call", "tailcall"} /\ x.pc \in DOMAIN program[x.fn] /\ op \in C!Ops
       /\ o.site = x.pc
  <2>1. ~C!AtEnd(x) /\ op \in {"call", "tailcall"}
    BY <1>8, <1>12, <1>15 DEF C!IsAt, C!OpOf, C!Code
  <2> QED
    BY <1>5, <1>8, <1>12, <1>15, <2>1, InstructionAt
<1>17. op = CodeOf(o.frame)[o.site].op
  BY <1>12, <1>15, <1>16 DEF CodeOf
<1>18. PICK fl : fl = {"nested"} \cup (CASE exit.status = "deopt" -> {"nestedDeopt"}
                                        [] exit.status = "error" -> {"nestedError"}
                                        [] OTHER -> {})
  OBVIOUS
<1>19. ctx' = [status |-> "stub", stub |-> StubOf(op), site |-> o.site, flags |-> fl,
               inner |-> exit.site, innerStub |-> exit.stub]
  <2>1. o = control[LoopIndex + 1]
    BY <1>6, <1>7
  <2> QED
    BY <1>3, <1>17, <1>18, <2>1, PublishedByCaller
<1>20. /\ "nested" \in fl /\ fl \cap {"marking", "safepoint"} = {}
       /\ fl \subseteq {"safepoint", "marking", "nested", "nestedDeopt", "nestedError"}
       /\ fl \cap {"nestedDeopt", "nestedError"} = {} => exit.status = "stub"
  BY <1>14, <1>18
<1>21. ctx' \in Exit
  <2>1. StubOf(op) \in Stubs
    BY <1>16, StubsTyped
  <2>2. o.site \in Nat /\ exit.site \in Nat /\ exit.stub \in Stubs \cup {"none"}
    BY <1>14 DEF Activation, Exit
  <2> QED
    BY <1>19, <1>20, <2>1, <2>2 DEF Exit
<1>22. /\ ctx'.status = "stub" /\ ctx'.stub = StubOf(op) /\ ctx'.site = o.site /\ ctx'.flags = fl
       /\ ctx'.inner = exit.site /\ ctx'.innerStub = exit.stub
  BY <1>19
<1>23. FlagsOK' /\ compiled' \subseteq Supported /\ failing' = FALSE /\ program' = program
  BY <1>3, <1>4 DEF NInv, FlagsOK
<1>24. /\ Core(control', frames', open') /\ control' # <<>>
       /\ b = control'[Len(control')] /\ b.kind \in Loops /\ b.site = 0
       /\ x = frames'[b.frame] /\ Len(frames') = Height(control') + 1
  BY <1>1, <1>3, <1>4, <1>6, <1>8, <1>9, <1>10, <1>11, <1>12
<1>25. /\ x.pc = IF "safepoint" \in ctx'.flags THEN ctx'.site + 1 ELSE ctx'.site
       /\ Len(frames') = Height(control') + (IF "nested" \in ctx'.flags THEN 1 ELSE 0)
       /\ "marking" \in ctx'.flags =>
            program[x.fn][ctx'.site].op = "setupval" /\ "safepoint" \notin ctx'.flags
  BY <1>16, <1>20, <1>22, <1>24
<1>26. y = frames'[Len(frames')]
  BY <1>1, <1>4, <1>13
<1>27. "nested" \in ctx'.flags =>
           /\ ctx'.flags \cap {"marking", "safepoint"} = {}
           /\ program[x.fn][ctx'.site].op \in {"call", "tailcall"}
           /\ ctx'.inner \in DOMAIN program[frames'[Len(frames')].fn]
           /\ ctx'.inner = frames'[Len(frames')].pc
           /\ ctx'.flags \cap {"nestedDeopt", "nestedError"} = {}
                => ctx'.innerStub = StubOf(program[frames'[Len(frames')].fn][ctx'.inner].op)
  BY <1>14, <1>15, <1>16, <1>20, <1>22, <1>26
<1>28. /\ ctx'.status \in {"stub", "deopt", "error"} /\ ctx'.site \in DOMAIN program[x.fn]
       /\ ctx'.status = "stub" => StubOf(program[x.fn][ctx'.site].op) = ctx'.stub
       /\ ctx'.status # "stub" => ctx'.flags = {}
  BY <1>15, <1>16, <1>22
<1> QED
  BY <1>21, <1>23, <1>24, <1>25, <1>27, <1>28, ExitInv

\* A loop leaves at its safepoint, past the loop instruction.
LEMMA LoopSafepointStep ==
  ASSUME NInv, LoopSafepoint(1)
  PROVE  NInv'
<1> DEFINE x == frames[Top.frame]
<1>1. /\ InNative /\ Natives = 1 /\ Runs({"loop"})
      /\ frames' = SetFrame(Top.frame, C!Past(x))
      /\ Leave(1, StubExit(x.pc, "loop", {"safepoint"}))
  BY DEF LoopSafepoint
<1>2. PICK exit : exit = StubExit(x.pc, "loop", {"safepoint"})
  OBVIOUS
<1>3. /\ ctx' = exit /\ control' = SubSeq(control, 1, LoopIndex)
      /\ UNCHANGED <<program, flags, compiled, open, failing>>
  BY <1>1, <1>2 DEF Leave, Published
<1>4. /\ control # <<>> /\ Top.kind = "native" /\ failing = FALSE /\ Top.frame = Len(frames)
      /\ Top.frame \in 1..Len(frames) /\ x \in C!Frame
  BY <1>1, NativeStanding
<1>5. /\ frames \in Seq(C!Frame) /\ Len(frames) <= MaxFrames /\ open \subseteq 1..Len(frames)
      /\ program \in Programs
  BY Standing
<1>6. /\ control[LoopIndex].frame = Top.frame
      /\ control[LoopIndex].kind \in Loops /\ control[LoopIndex].site = 0
  BY <1>1, <1>4, LoopBelow
<1>7. PICK y \in C!Frame : y = C!Past(x)
  BY <1>4, <1>5, FrameMoves
<1>8. y.fn = x.fn /\ y.pc = x.pc + 1 /\ x.pc \in Nat
  <2>1. PICK z \in C!Frame : z = x
    BY <1>4
  <2>2. y = [z EXCEPT !.pc = z.pc + 1]
    BY <1>7, <2>1 DEF C!Past
  <2>3. y.fn = z.fn /\ y.pc = z.pc + 1 /\ z.pc \in Nat
    BY <2>2 DEF C!Frame
  <2> QED
    BY <2>1, <2>3
<1>9. PICK gs : gs = frames' /\ gs = [frames EXCEPT ![Top.frame] = y]
  BY <1>1, <1>7 DEF SetFrame
<1>10. /\ gs \in Seq(C!Frame) /\ Len(gs) = Len(frames) /\ gs[Top.frame] = y
       /\ \A f \in 1..Top.frame - 1 : gs[f] = frames[f]
  <2>1. PICK h : h = Top.frame
    OBVIOUS
  <2> QED
    BY <1>4, <1>5, <1>9, <2>1, FrameSet
<1>11. PICK c : c = control' /\ c = SubSeq(control, 1, LoopIndex)
  BY <1>3
<1>12. /\ Core(c, gs, open) /\ c # <<>> /\ c[Len(c)] = control[LoopIndex]
       /\ Height(c) = control[LoopIndex].frame
  BY <1>4, <1>5, <1>6, <1>10, <1>11, CutCore
<1>13. PICK b : b = control[LoopIndex]
  OBVIOUS
<1>14. x.pc \in DOMAIN program[x.fn] /\ program[x.fn][x.pc].op = "loop"
  <2>1. ~C!AtEnd(x) /\ program[x.fn][x.pc].op = "loop"
    BY <1>1 DEF Runs, At, CodeOf
  <2> QED
    BY <1>4, <1>5, <2>1, InstructionAt
<1>15. exit = [status |-> "stub", stub |-> "loop", site |-> x.pc, flags |-> {"safepoint"},
               inner |-> 0, innerStub |-> "none"]
  BY <1>2, ExitMade
<1>16. "loop" \in Stubs /\ StubOf("loop") = "loop"
  BY DEF Stubs, StubOf
<1>17. ctx' \in Exit /\ ctx'.status = "stub" /\ ctx'.stub = "loop" /\ ctx'.site = x.pc
       /\ ctx'.flags = {"safepoint"}
  BY <1>3, <1>8, <1>15, <1>16 DEF Exit
<1>18. FlagsOK' /\ compiled' \subseteq Supported /\ failing' = FALSE /\ program' = program
  BY <1>3, <1>4 DEF NInv, FlagsOK
<1>19. /\ Core(control', frames', open') /\ control' # <<>>
       /\ b = control'[Len(control')] /\ b.kind \in Loops /\ b.site = 0
       /\ y = frames'[b.frame] /\ Len(frames') = Height(control')
  BY <1>3, <1>4, <1>6, <1>9, <1>10, <1>11, <1>12, <1>13
<1>20. "nested" \notin ctx'.flags /\ "marking" \notin ctx'.flags
  BY <1>17
<1>21. /\ y.pc = IF "safepoint" \in ctx'.flags THEN ctx'.site + 1 ELSE ctx'.site
       /\ Len(frames') = Height(control') + (IF "nested" \in ctx'.flags THEN 1 ELSE 0)
       /\ "marking" \in ctx'.flags =>
            program[y.fn][ctx'.site].op = "setupval" /\ "safepoint" \notin ctx'.flags
  BY <1>4, <1>5, <1>8, <1>9, <1>10, <1>17, <1>19, <1>20
<1>22. "nested" \in ctx'.flags =>
           /\ ctx'.flags \cap {"marking", "safepoint"} = {}
           /\ program[y.fn][ctx'.site].op \in {"call", "tailcall"}
           /\ ctx'.inner \in DOMAIN program[frames'[Len(frames')].fn]
           /\ ctx'.inner = frames'[Len(frames')].pc
           /\ ctx'.flags \cap {"nestedDeopt", "nestedError"} = {}
                => ctx'.innerStub = StubOf(program[frames'[Len(frames')].fn][ctx'.inner].op)
  BY <1>20
<1>23. /\ ctx'.status \in {"stub", "deopt", "error"} /\ ctx'.site \in DOMAIN program[y.fn]
       /\ ctx'.status = "stub" => StubOf(program[y.fn][ctx'.site].op) = ctx'.stub
       /\ ctx'.status # "stub" => ctx'.flags = {}
  BY <1>8, <1>14, <1>16, <1>17
<1> QED
  BY <1>17, <1>18, <1>19, <1>21, <1>22, <1>23, ExitInv

\* The frames with that of f resumed and on top.
BackTo(f) == [SubSeq(frames, 1, f) EXCEPT ![f] = C!Resumed(@)]

\* A native callee's frame is popped and its native caller goes on behind the
\* call: no upvalue is open on the frame that goes.
LEMMA CalleeGone ==
  ASSUME NInv, InNative, Natives = 2, NEW o, o = Below[Len(Below)],
         NEW gs, gs = BackTo(o.frame)
  PROVE  /\ o \in Activation /\ o = control[Len(control) - 1] /\ o.kind = "native"
         /\ o.frame + 1 = Top.frame /\ Top.frame = Len(frames)
         /\ o.frame = control[LoopIndex].frame /\ o.frame \in 1..Len(frames)
         /\ C!IsAt(frames[o.frame], {"call", "tailcall"})
         /\ gs \in Seq(C!Frame) /\ Len(gs) = o.frame
         /\ gs[o.frame] = C!Resumed(frames[o.frame])
         /\ \A f \in 1..o.frame - 1 : gs[f] = frames[f]
         /\ open \subseteq 1..o.frame
<1>1. /\ control # <<>> /\ Top.kind = "native" /\ Top.frame = Len(frames)
      /\ Top.frame \in 1..Len(frames)
  BY NativeStanding
<1>2. /\ frames \in Seq(C!Frame) /\ open \subseteq 1..Len(frames)
      /\ program \in Programs /\ control \in Seq(Activation) /\ Core(control, frames, open)
  BY Standing
<1>3. PICK n \in Nat : n = Len(control) - 1 /\ n \in 1..Len(control) /\ n # 0 /\ n \in 1..n
  BY <1>1, LoopBelow
<1>4. Below \in Seq(Activation) /\ Len(Below) = n /\ Below[n] = control[n]
  <2>1. n \in 0..Len(control)
    BY <1>3
  <2>2. /\ SubSeq(control, 1, n) \in Seq(Activation) /\ Len(SubSeq(control, 1, n)) = n
        /\ \A i \in 1..n : SubSeq(control, 1, n)[i] = control[i]
    BY <1>2, <2>1, PrefixOf
  <2>3. Below = SubSeq(control, 1, n)
    BY <1>3 DEF Below
  <2> QED
    BY <1>3, <2>2, <2>3, Zenon
<1>5. o = control[n] /\ o \in Activation
  BY <1>2, <1>3, <1>4
<1>6. /\ o.kind = "native" /\ Top.frame = o.frame + 1
      /\ o.frame = control[LoopIndex].frame
      /\ C!IsAt(frames[o.frame], {"call", "tailcall"})
  BY <1>1, <1>3, <1>5, LoopBelow
<1>7. PICK h \in Nat : h = o.frame /\ h # 0 /\ h + 1 = Len(frames) /\ h \in 1..Len(frames)
  <2>1. o.frame \in Nat \ {0}
    BY <1>2, <1>3, <1>5, ActivationFrame
  <2> QED
    BY <1>1, <1>6, <2>1
<1>8. PICK fs : fs = SubSeq(frames, 1, h)
  OBVIOUS
<1>9. fs \in Seq(C!Frame) /\ Len(fs) = h /\ \A i \in 1..h : fs[i] = frames[i]
  <2>1. h \in 0..Len(frames)
    BY <1>7
  <2>2. /\ SubSeq(frames, 1, h) \in Seq(C!Frame) /\ Len(SubSeq(frames, 1, h)) = h
        /\ \A i \in 1..h : SubSeq(frames, 1, h)[i] = frames[i]
    BY <1>2, <2>1, PrefixOf
  <2> QED
    BY <1>8, <2>2, Zenon
<1>10. PICK x \in C!Frame : x = C!Resumed(frames[h])
  BY <1>2, <1>7, FrameMoves
<1>11. fs[h] = frames[h] /\ h \in 1..Len(fs)
  <2>1. h \in 1..h
    BY <1>7
  <2> QED
    BY <1>9, <2>1
<1>12. gs = [fs EXCEPT ![h] = x]
  BY <1>7, <1>8, <1>10, <1>11 DEF BackTo
<1>13. /\ gs \in Seq(C!Frame) /\ Len(gs) = h /\ gs[h] = x
       /\ \A f \in 1..h - 1 : gs[f] = fs[f]
  <2>1. /\ [fs EXCEPT ![h] = x] \in Seq(C!Frame)
        /\ Len([fs EXCEPT ![h] = x]) = Len(fs)
        /\ [fs EXCEPT ![h] = x][h] = x
        /\ \A f \in 1..h - 1 : [fs EXCEPT ![h] = x][f] = fs[f]
    <3>1. fs \in Seq(C!Frame) /\ h \in 1..Len(fs) /\ x \in C!Frame
      BY <1>9, <1>11
    <3> HIDE <1>10
    <3> QED
      BY <3>1, FrameSet
  <2>2. /\ gs \in Seq(C!Frame) /\ Len(gs) = Len(fs) /\ gs[h] = x
        /\ \A f \in 1..h - 1 : gs[f] = fs[f]
    BY <1>12, <2>1, Zenon
  <2> QED
    BY <1>9, <2>2
<1>14. \A f \in 1..h - 1 : gs[f] = frames[f]
  BY SMTT(30), <1>7, <1>9, <1>13
<1>15. open \subseteq 1..h
  <2>1. n \in 1..Len(control) - 1 /\ n + 1 = Len(control)
    BY <1>3
  <2>2. control[n + 1].frame \notin open
    BY <1>2, <1>5, <1>6, <2>1 DEF Core
  <2>3. h + 1 \notin open
    BY <1>6, <1>7, <2>1, <2>2 DEF Top
  <2>4. \A f \in 1..h + 1 : f # h + 1 => f \in 1..h
    OBVIOUS
  <2> QED
    BY <1>2, <1>7, <2>3, <2>4
<1> QED
  BY <1>1, <1>3, <1>5, <1>6, <1>7, <1>10, <1>13, <1>14, <1>15

\* A native call that has returned leaves at the safepoint behind it.
LEMMA CallSafepointStep ==
  ASSUME NInv, CallSafepoint(1)
  PROVE  NInv'
<1>1. /\ InNative /\ Natives = 2
  BY DEF CallSafepoint, ReturnsToNative
<1>2. PICK o : o = Below[Len(Below)]
  OBVIOUS
<1>3. /\ At(o.frame).op = "call"
      /\ frames' = [SubSeq(frames, 1, o.frame) EXCEPT ![o.frame] = C!Resumed(@)]
      /\ Leave(1, StubExit(frames[o.frame].pc, "call", {"safepoint"}))
  BY <1>2 DEF CallSafepoint
<1>4. PICK gs : gs = frames' /\ gs = BackTo(o.frame)
  BY <1>3 DEF BackTo
<1>5. /\ o \in Activation
      /\ o.frame + 1 = Top.frame /\ Top.frame = Len(frames)
      /\ o.frame = control[LoopIndex].frame /\ o.frame \in 1..Len(frames)
      /\ C!IsAt(frames[o.frame], {"call", "tailcall"})
      /\ gs \in Seq(C!Frame) /\ Len(gs) = o.frame
      /\ gs[o.frame] = C!Resumed(frames[o.frame])
      /\ \A f \in 1..o.frame - 1 : gs[f] = frames[f]
      /\ open \subseteq 1..o.frame
  BY <1>1, <1>2, <1>4, CalleeGone
<1>6. /\ control # <<>> /\ Top.kind = "native" /\ failing = FALSE
  BY <1>1, NativeStanding
<1>7. /\ frames \in Seq(C!Frame) /\ Len(frames) <= MaxFrames /\ program \in Programs
      /\ MaxFrames \in Nat
  BY Standing, NativeCallsAssumption DEF NativeCallsAssumption
<1>8. control[LoopIndex].kind \in Loops /\ control[LoopIndex].site = 0
  BY <1>6, LoopBelow
<1>9. PICK x \in C!Frame : x = frames[o.frame]
  BY <1>5, <1>7
<1>10. ~C!AtEnd(x) /\ program[x.fn][x.pc].op = "call"
  BY <1>3, <1>5, <1>9 DEF C!IsAt, At, CodeOf
<1>11. x.pc \in DOMAIN program[x.fn]
  BY <1>7, <1>10, InstructionAt
<1>12. PICK y : y = gs[o.frame] /\ y = C!Past(x)
  <2>1. ~C!IsAt(x, {"tailcall"}) /\ ~C!IsAt(x, {"host"})
    BY <1>10 DEF C!IsAt, C!OpOf, C!Code
  <2> QED
    BY <1>5, <1>9, <2>1 DEF C!Resumed
<1>13. y.fn = x.fn /\ y.pc = x.pc + 1 /\ x.pc \in Nat
  <2>1. y = [x EXCEPT !.pc = x.pc + 1]
    BY <1>12 DEF C!Past
  <2> QED
    BY <2>1 DEF C!Frame
<1>14. PICK exit : exit = StubExit(x.pc, "call", {"safepoint"})
  OBVIOUS
<1>15. /\ ctx' = exit /\ control' = SubSeq(control, 1, LoopIndex)
       /\ UNCHANGED <<program, flags, compiled, open, failing>>
  BY <1>3, <1>9, <1>14 DEF Leave, Published
<1>16. PICK c : c = control' /\ c = SubSeq(control, 1, LoopIndex)
  BY <1>15
<1>17. Len(gs) <= MaxFrames /\ open \subseteq 1..Len(gs)
  BY <1>5, <1>7
<1>18. /\ Core(c, gs, open) /\ c # <<>> /\ c[Len(c)] = control[LoopIndex]
       /\ Height(c) = control[LoopIndex].frame
  BY <1>5, <1>6, <1>16, <1>17, CutCore
<1>19. PICK b : b = control[LoopIndex]
  OBVIOUS
<1>20. exit = [status |-> "stub", stub |-> "call", site |-> x.pc, flags |-> {"safepoint"},
               inner |-> 0, innerStub |-> "none"]
  BY <1>14, ExitMade
<1>21. "call" \in Stubs /\ StubOf("call") = "call"
  BY DEF Stubs, StubOf
<1>22. ctx' \in Exit /\ ctx'.status = "stub" /\ ctx'.stub = "call" /\ ctx'.site = x.pc
       /\ ctx'.flags = {"safepoint"}
  BY <1>13, <1>15, <1>20, <1>21 DEF Exit
<1>23. FlagsOK' /\ compiled' \subseteq Supported /\ failing' = FALSE /\ program' = program
  BY <1>6, <1>15 DEF NInv, FlagsOK
<1>24. /\ Core(control', frames', open') /\ control' # <<>>
       /\ b = control'[Len(control')] /\ b.kind \in Loops /\ b.site = 0
       /\ y = frames'[b.frame] /\ Len(frames') = Height(control')
  BY <1>4, <1>5, <1>8, <1>12, <1>15, <1>16, <1>18, <1>19
<1>25. "nested" \notin ctx'.flags /\ "marking" \notin ctx'.flags
  BY <1>22
<1>26. /\ y.pc = IF "safepoint" \in ctx'.flags THEN ctx'.site + 1 ELSE ctx'.site
       /\ Len(frames') = Height(control') + (IF "nested" \in ctx'.flags THEN 1 ELSE 0)
       /\ "marking" \in ctx'.flags =>
            program[y.fn][ctx'.site].op = "setupval" /\ "safepoint" \notin ctx'.flags
  BY <1>4, <1>5, <1>13, <1>22, <1>24, <1>25
<1>27. "nested" \in ctx'.flags =>
           /\ ctx'.flags \cap {"marking", "safepoint"} = {}
           /\ program[y.fn][ctx'.site].op \in {"call", "tailcall"}
           /\ ctx'.inner \in DOMAIN program[frames'[Len(frames')].fn]
           /\ ctx'.inner = frames'[Len(frames')].pc
           /\ ctx'.flags \cap {"nestedDeopt", "nestedError"} = {}
                => ctx'.innerStub = StubOf(program[frames'[Len(frames')].fn][ctx'.inner].op)
  BY <1>25
<1>28. /\ ctx'.status \in {"stub", "deopt", "error"} /\ ctx'.site \in DOMAIN program[y.fn]
       /\ ctx'.status = "stub" => StubOf(program[y.fn][ctx'.site].op) = ctx'.stub
       /\ ctx'.status # "stub" => ctx'.flags = {}
  BY <1>10, <1>11, <1>13, <1>21, <1>22
<1> QED
  BY <1>22, <1>23, <1>24, <1>26, <1>27, <1>28, ExitInv

\* A native call has returned to its native caller.
LEMMA NativeCallDoneStep ==
  ASSUME NInv, NativeCallDone
  PROVE  NInv'
<1>1. /\ InNative /\ Natives > 1
      /\ UNCHANGED <<program, ctx, flags, compiled, open, failing>>
  BY DEF NativeCallDone, ReturnsToNative
<1>2. PICK o : o = Below[Len(Below)]
  OBVIOUS
<1>3. PICK gs : gs = frames' /\ gs = BackTo(o.frame)
  BY <1>2 DEF NativeCallDone, BackTo
<1>4. /\ control # <<>> /\ Top.kind = "native" /\ failing = FALSE /\ ctx = NoExit
  BY <1>1, NativeStanding
<1>5. Natives = 2
  BY <1>1, <1>4, LoopBelow
<1>6. /\ o \in Activation /\ o.kind = "native"
      /\ o.frame + 1 = Top.frame /\ Top.frame = Len(frames)
      /\ o.frame \in 1..Len(frames)
      /\ gs \in Seq(C!Frame) /\ Len(gs) = o.frame
      /\ \A f \in 1..o.frame - 1 : gs[f] = frames[f]
      /\ open \subseteq 1..o.frame
  BY <1>1, <1>2, <1>3, <1>5, CalleeGone
<1>7. /\ frames \in Seq(C!Frame) /\ Len(frames) <= MaxFrames /\ program \in Programs
      /\ MaxFrames \in Nat /\ control \in Seq(Activation) /\ Core(control, frames, open)
      /\ open \subseteq 1..Len(frames)
  BY Standing, NativeCallsAssumption DEF NativeCallsAssumption
<1>8. PICK d : d = Below /\ d = SubSeq(control, 1, Len(control) - 1)
  BY DEF Below
<1>9. Core(d, frames, open)
  BY <1>4, <1>7, <1>8, PopCore
<1>10. d \in Seq(Activation) /\ d # <<>> /\ o = d[Len(d)]
  <2>1. PICK n \in Nat : n = Len(control) - 1 /\ n # 0 /\ n \in 0..Len(control)
    BY <1>4, LoopBelow
  <2>2. SubSeq(control, 1, n) \in Seq(Activation) /\ Len(SubSeq(control, 1, n)) = n
    BY <1>7, <2>1, PrefixOf
  <2>3. d = SubSeq(control, 1, n)
    BY <1>8, <2>1
  <2>4. d \in Seq(Activation) /\ Len(d) = n
    BY <2>2, <2>3, Zenon
  <2> QED
    BY <1>2, <1>8, <2>1, <2>4
<1>11. PICK c : c = control' /\ c = [d EXCEPT ![Len(d)].site = 0]
  BY <1>8 DEF NativeCallDone
<1>12. /\ c \in Seq(Activation) /\ Len(c) = Len(d) /\ c[Len(d)].kind = d[Len(d)].kind
       /\ c[Len(d)].frame = d[Len(d)].frame /\ c[Len(d)].site = 0
       /\ \A i \in 1..Len(d) : i # Len(d) => c[i] = d[i]
  <2>1. /\ [d EXCEPT ![Len(d)].site = 0] \in Seq(Activation)
        /\ Len([d EXCEPT ![Len(d)].site = 0]) = Len(d)
        /\ [d EXCEPT ![Len(d)].site = 0][Len(d)].kind = d[Len(d)].kind
        /\ [d EXCEPT ![Len(d)].site = 0][Len(d)].frame = d[Len(d)].frame
        /\ [d EXCEPT ![Len(d)].site = 0][Len(d)].site = 0
        /\ \A i \in 1..Len(d) : i # Len(d) => [d EXCEPT ![Len(d)].site = 0][i] = d[i]
    BY <1>10, 0 \in Nat, SiteSet, Zenon
  <2> QED
    BY <1>11, <2>1, Zenon
<1>13. /\ Core(c, frames, open) /\ c # <<>> /\ Len(c) = Len(d) /\ Height(c) = Height(d)
       /\ c[Len(c)].kind = d[Len(d)].kind /\ c[Len(c)].frame = d[Len(d)].frame
       /\ c[Len(c)].site = 0
  BY <1>9, <1>10, <1>12, SiteCore
<1>14. Height(c) = o.frame /\ c[Len(c)].kind # "host"
  BY <1>6, <1>10, <1>13 DEF Height
<1>15. Core(c, gs, open)
  <2>1. /\ Len(gs) <= MaxFrames /\ open \subseteq 1..Len(gs) /\ open \subseteq open
        /\ \A f \in 1..Height(c) - 1 : gs[f] = frames[f]
    BY <1>6, <1>7, <1>14
  <2> QED
    BY <1>6, <1>13, <1>14, <2>1, MoveCore
<1>16. FlagsOK' /\ compiled' \subseteq Supported /\ failing' \in BOOLEAN /\ program' = program
  BY <1>1 DEF NInv, FlagsOK
<1>17. /\ Core(control', frames', open') /\ Len(frames') = Height(control') /\ ctx' = NoExit
       /\ control'[Len(control')].site = 0
  BY <1>1, <1>3, <1>4, <1>6, <1>11, <1>13, <1>14, <1>15
<1> QED
  BY <1>16, <1>17, CalmInv

\* Native code that a Go loop entered calls compiled code.
LEMMA ClearCallStep ==
  ASSUME NInv, ClearCall
  PROVE  NInv'
<1>1. /\ InNative /\ Natives = 1 /\ Runs({"call", "tailcall"}) /\ Top.frame < MaxFrames
      /\ UNCHANGED <<program, ctx, flags, compiled, open, failing>>
  BY DEF ClearCall, NativeCall
<1>2. PICK g : /\ g \in compiled
               /\ frames' = Append(SubSeq(frames, 1, Top.frame), C!Start(g))
               /\ control' = Append(WaitAt(frames[Top.frame].pc), Act("native", Top.frame + 1))
  BY DEF ClearCall, NativeCall
<1>3. /\ control # <<>> /\ Top.kind = "native" /\ failing = FALSE /\ ctx = NoExit
      /\ Top.frame = Len(frames) /\ Top.frame \in 1..Len(frames) /\ Len(frames) = Height(control)
      /\ frames[Top.frame] \in C!Frame
  BY <1>1, NativeStanding
<1>4. /\ frames \in Seq(C!Frame) /\ Len(frames) <= MaxFrames /\ program \in Programs
      /\ MaxFrames \in Nat /\ control \in Seq(Activation) /\ Core(control, frames, open)
      /\ open \subseteq 1..Len(frames) /\ compiled \subseteq Functions
  BY Standing, NativeCallsAssumption DEF NativeCallsAssumption, NInv
<1>5. PICK h \in Nat : h = Top.frame /\ h = Len(frames) /\ h # 0
  BY <1>3
<1>6. PICK s \in Nat : s = frames[h].pc /\ s # 0
  BY <1>3, <1>5 DEF C!Frame
<1>7. PICK d : d = WaitAt(s)
  OBVIOUS
<1>8. /\ d \in Seq(Activation) /\ Len(d) = Len(control)
      /\ d[Len(control)].kind = control[Len(control)].kind
      /\ d[Len(control)].frame = control[Len(control)].frame /\ d[Len(control)].site = s
      /\ \A i \in 1..Len(control) : i # Len(control) => d[i] = control[i]
  BY <1>3, <1>4, <1>7, SiteSet DEF WaitAt
<1>9. /\ Core(d, frames, open) /\ d # <<>> /\ Len(d) = Len(control) /\ Height(d) = Height(control)
      /\ d[Len(d)].kind = "native" /\ d[Len(d)].frame = h
      /\ d[Len(d)].site = s
      /\ \A i \in 1..Len(control) : d[i].kind = control[i].kind
  <2>1. /\ control[Len(control)].kind \in Loops \cup {"native"}
        /\ s = frames[control[Len(control)].frame].pc
        /\ control[Len(control)].kind = "native" /\ control[Len(control)].frame = h
    BY <1>3, <1>5, <1>6 DEF Top
  <2> QED
    BY <1>3, <1>4, <1>8, <2>1, SiteCore
<1>10. PICK n \in Nat : n = Len(d) /\ n # 0 /\ n \in 1..n /\ n = Len(control)
  BY <1>8, <1>9
<1>11. \A i \in 1..n - 1 : d[i].kind # "native"
  <2>1. \A i \in 1..n - 1 : control[i].kind # "native" /\ i \in 1..n
    BY <1>1, <1>3, <1>10, LoopBelow
  <2> QED
    BY <1>9, <1>10, <2>1
<1>12. PICK a \in Activation : /\ a = Act("native", h + 1) /\ a.site = 0 /\ a.kind = "native"
                               /\ a.frame = h + 1
  <2>1. h + 1 \in 1..MaxFrames /\ 0 \in Nat
    BY <1>1, <1>4, <1>5
  <2>2. /\ Act("native", h + 1) \in Activation /\ Act("native", h + 1).site = 0
        /\ Act("native", h + 1).kind = "native" /\ Act("native", h + 1).frame = h + 1
    BY <2>1 DEF Act, Activation
  <2> QED
    BY <2>2, Zenon
<1>13. PICK e \in Activation : e = d[n] /\ e.kind = "native" /\ e.frame = h /\ e.site = s
  BY <1>8, <1>9, <1>10
<1>19. PICK gs : gs = frames'
  OBVIOUS
<1>20. /\ gs \in Seq(C!Frame) /\ Len(gs) = h + 1 /\ \A f \in 1..h : gs[f] = frames[f]
  <2>1. SubSeq(frames, 1, h) = frames
    <3>1. PICK p : p = SubSeq(frames, 1, h)
      OBVIOUS
    <3>2. p \in Seq(C!Frame) /\ Len(p) = h /\ \A i \in 1..h : p[i] = frames[i]
      <4>1. h \in 0..Len(frames)
        BY <1>5
      <4>2. /\ SubSeq(frames, 1, h) \in Seq(C!Frame) /\ Len(SubSeq(frames, 1, h)) = h
            /\ \A i \in 1..h : SubSeq(frames, 1, h)[i] = frames[i]
        BY <1>4, <4>1, PrefixOf
      <4> QED
        BY <3>1, <4>2, Zenon
    <3>3. p = frames
      BY <1>4, <1>5, <3>2, SeqEqual
    <3> QED
      BY <3>1, <3>3
  <2>2. gs = Append(frames, C!Start(g))
    BY <1>2, <1>5, <1>19, <2>1
  <2>3. C!Start(g) \in C!Frame
    BY <1>2, <1>3, <1>4, FrameMoves
  <2> QED
    BY <1>4, <1>5, <2>2, <2>3
<1>14. /\ Link(d[Len(d)], a)
       /\ Called(d[Len(d)], a) => C!IsAt(gs[d[Len(d)].frame], CallOps(d[Len(d)], a))
  <2>1. Link(e, a)
    BY <1>6, <1>12, <1>13 DEF Link
  <2>2. CallOps(e, a) = {"call", "tailcall"}
    BY <1>12, <1>13 DEF CallOps
  <2>3. C!IsAt(frames[h], {"call", "tailcall"})
    BY <1>1, <1>5 DEF Runs, At, CodeOf, C!IsAt, C!OpOf, C!Code
  <2>4. gs[h] = frames[h]
    BY <1>5, <1>20
  <2> QED
    BY <1>10, <1>13, <2>1, <2>2, <2>3, <2>4
<1>15. PICK c : c = Append(d, a)
  OBVIOUS
<1>16. c \in Seq(Activation) /\ Stack(c, gs)
  <2>a. Stack(d, frames)
    BY <1>9 DEF Core
  <2>1. Stack(d, gs)
    <3>1. \A f \in 1..Height(d) : gs[f] = frames[f]
      BY <1>3, <1>5, <1>9, <1>20
    <3> QED
      BY <1>8, <2>a, <3>1, SameFrames
  <2> QED
    BY <1>8, <1>9, <1>10, <1>11, <1>12, <1>14, <1>15, <2>1, PushStack
<1>17. Len(c) = n + 1 /\ c[n + 1] = a /\ \A i \in 1..n : c[i] = d[i]
  BY <1>8, <1>10, <1>15
<1>18. Height(c) = h + 1 /\ c # <<>> /\ c[Len(c)].site = 0
  BY <1>12, <1>17 DEF Height
<1>22. \A i \in 1..Len(c) - 1 : c[i].kind = "native" => c[i + 1].frame \notin open
  <2>1. \A i \in 1..n - 1 : c[i].kind # "native"
    BY <1>10, <1>11, <1>17
  <2>2. c[n + 1].frame \notin open
    BY <1>4, <1>5, <1>12, <1>17
  <2>3. \A i \in 1..Len(c) - 1 : i \in 1..n - 1 \/ i = n
    BY <1>17
  <2> QED
    BY <2>1, <2>2, <2>3
<1>23. Core(c, gs, open)
  <2>1. Len(gs) <= MaxFrames /\ open \subseteq 1..Len(gs)
    BY <1>1, <1>4, <1>5, <1>20
  <2> QED
    BY <1>16, <1>20, <1>22, <2>1 DEF Core
<1>24. c = control'
  BY <1>2, <1>5, <1>6, <1>7, <1>12, <1>15
<1>25. FlagsOK' /\ compiled' \subseteq Supported /\ failing' \in BOOLEAN /\ program' = program
  BY <1>1 DEF NInv, FlagsOK
<1>26. /\ Core(control', frames', open') /\ Len(frames') = Height(control') /\ ctx' = NoExit
       /\ control'[Len(control')].site = 0
  BY <1>1, <1>3, <1>18, <1>19, <1>20, <1>23, <1>24
<1> QED
  BY <1>25, <1>26, CalmInv

-----------------------------------------------------------------------------
(* The theorems                                                            *)

\* The invariant holds before anything is called.
LEMMA InvInit ==
  ASSUME Init
  PROVE  NInv
<1>1. control = <<>> /\ frames = <<>> /\ open = {} /\ ctx = NoExit
  BY DEF Init
<1>2. <<>> \in Seq(Activation) /\ <<>> \in Seq(C!Frame) /\ Len(<<>>) = 0 /\ 0 <= MaxFrames
  BY NativeCallsAssumption DEF NativeCallsAssumption
<1>3. Stack(control, frames)
  <2>1. Len(control) = 0 /\ 1..0 = {} /\ 1..0 - 1 = {} /\ 1..0 - 2 = {}
    BY <1>1, <1>2
  <2> QED
    BY <1>1, <2>1 DEF Stack
<1>4. Core(control, frames, open)
  <2>1. Len(control) = 0 /\ 1..0 - 1 = {}
    BY <1>1, <1>2
  <2> QED
    BY <1>1, <1>2, <1>3, <2>1 DEF Core
<1>5. ExitSound
  BY <1>1, ExitFields DEF ExitSound
<1>6. Len(frames) = Height(control) + (IF "nested" \in ctx.flags THEN 1 ELSE 0)
  BY <1>1, <1>2, ExitFields DEF Height
<1>7. FlagsOK /\ program \in Programs /\ compiled \subseteq Supported /\ failing \in BOOLEAN
  BY DEF Init, FlagsOK
<1> QED
  BY <1>1, <1>4, <1>5, <1>6, <1>7, ExitFields DEF NInv

\* What the runtime, the interpreter and the host do keeps the invariant.
LEMMA RuntimeKeeps ==
  ASSUME NInv, RuntimeNext
  PROVE  NInv'
<1>1. CASE Finish \/ InterpReturn
  BY <1>1, FinishStep
<1>2. CASE \/ HandleDeopt \/ HandleError \/ HandleMarking \/ HandleSafepoint
           \/ HandleAccess \/ HandleClosure \/ HandleClose
  BY <1>2, ServeStep
<1>3. CASE HandleCall \/ HandleMeta
  BY <1>3, HandleCallStep
<1>4. CASE HandleHostCall \/ FinishNested
  BY <1>4, HandOverStep
<1>5. CASE InterpAdvance
  BY <1>5, AdvanceStep
<1>6. CASE InterpCall \/ InterpHostCall
  BY <1>6, InterpCallStep
<1>7. CASE DeoptReturn
  BY <1>7, DeoptReturnStep
<1>8. CASE HostCalls
  BY <1>8, HostCallsStep
<1>9. CASE HostReturn
  BY <1>9, HostReturnStep
<1>10. CASE \/ HostFail \/ InterpFail \/ UnwindCall \/ RestoreSnapshot \/ UnwindDeopt
            \/ HostHasError
  BY <1>10, UnwindStep
<1> QED
  BY <1>1, <1>2, <1>3, <1>4, <1>5, <1>6, <1>7, <1>8, <1>9, <1>10 DEF RuntimeNext

\* Nothing changes, and nothing is lost.
LEMMA StutterKeeps ==
  ASSUME NInv, UNCHANGED vars
  PROVE  NInv'
<1>1. /\ program' = program /\ frames' = frames /\ control' = control /\ ctx' = ctx
      /\ flags' = flags /\ compiled' = compiled /\ open' = open /\ failing' = failing
  BY DEF vars
<1>2. Core(control, frames, open)'
  <2>1. Core(control, frames, open)
    BY Standing
  <2>2. Core(control', frames', open')
    BY <1>1, <2>1
  <2> QED
    BY <1>1, <2>2, CoreNext
<1>3. ExitSound'
  BY <1>1 DEF NInv, ExitSound, SiteMatches, Served, CodeOf, TopIs, Top, C!AtEnd, C!Code
<1>4. (Len(frames) = Height(control) + (IF "nested" \in ctx.flags THEN 1 ELSE 0))'
  BY <1>1 DEF NInv, Height
<1> QED
  BY <1>1, <1>2, <1>3, <1>4 DEF NInv, FlagsOK, Top

\* Every step keeps the invariant.
LEMMA InvStep ==
  ASSUME NInv, [ClearNext]_vars
  PROVE  NInv'
<1>1. CASE ClearCall
  BY <1>1, ClearCallStep
<1>2. CASE NativeAdvance
  BY <1>2, AdvanceStep
<1>3. CASE NativeReturn
  BY <1>3, NativeReturnStep
<1>4. CASE NativeCallDone
  BY <1>4, NativeCallDoneStep
<1>5. CASE NativeExit(1)
  BY <1>5, DirectExitStep
<1>6. CASE NativeExit(2)
  BY <1>6, NestedExitStep
<1>7. CASE LoopSafepoint(1)
  BY <1>7, LoopSafepointStep
<1>8. CASE CallSafepoint(1)
  BY <1>8, CallSafepointStep
<1>9. CASE RuntimeNext
  BY <1>9, RuntimeKeeps
<1>10. CASE UNCHANGED vars
  BY <1>10, StutterKeeps
<1> QED
  BY <1>1, <1>2, <1>3, <1>4, <1>5, <1>6, <1>7, <1>8, <1>9, <1>10 DEF ClearNext

\* The inductive invariant holds of every program that stays clear of the two
\* losses.
THEOREM Invariance == ClearSpec => []NInv
<1>1. Init => NInv
  BY InvInit
<1>2. NInv /\ [ClearNext]_vars => NInv'
  BY InvStep
<1> QED
  BY <1>1, <1>2, PTL DEF ClearSpec

\* Type correctness: every activation executes a frame of the thread, within its
\* capacity, and every pending exit is one Go code knows.
THEOREM TypeCorrect == ClearSpec => []TypeOK
<1>1. ASSUME NInv
      PROVE  TypeOK
  <2>1. /\ frames \in Seq(C!Frame) /\ Len(frames) <= MaxFrames /\ control \in Seq(Activation)
        /\ open \subseteq 1..Len(frames)
    BY <1>1, Standing
  <2>2. open \subseteq 1..MaxFrames
    BY <2>1, NativeCallsAssumption DEF NativeCallsAssumption
  <2> QED
    BY <1>1, <2>1, <2>2 DEF TypeOK, NInv, FlagsOK
<1> QED
  BY <1>1, Invariance, PTL

\* Each frame of the thread has one owner, in stack order: the call that pushed it
\* or took it over, or the native caller that waits for it; whoever unwinds pops
\* what it pushed (PushFrame, PopFrame, finishNestedCompiledCall).
THEOREM FramesHaveOwners == ClearSpec => []FramesAccounted
<1>1. ASSUME NInv
      PROVE  FramesAccounted
  <2>1. /\ control \in Seq(Activation) /\ Stack(control, frames)
        /\ Len(frames) = Height(control) + (IF "nested" \in ctx.flags THEN 1 ELSE 0)
    BY <1>1, Standing DEF NInv
  <2>2. PICK n \in Nat : n = Len(control)
    BY <2>1
  <2>3. n # 0 => control # <<>>
    BY <2>2
  <2>4. ASSUME NEW i \in 1..n
        PROVE  control[i].frame = IF OwnsFrame(i) THEN FrameBelow(i) + 1 ELSE FrameBelow(i)
    <3>1. CASE i = 1
      <4>1. control[1].kind \in {"compiled", "guarded"} /\ control[1].frame = 1
        BY <2>1, <2>3, <3>1, n # 0 DEF Stack
      <4>2. OwnsFrame(1) /\ FrameBelow(1) = 0
        BY <4>1 DEF OwnsFrame, FrameBelow
      <4> QED
        BY <3>1, <4>1, <4>2
    <3>2. CASE i # 1
      <4>1. PICK j \in Nat : i = j + 1 /\ j \in 1..n - 1 /\ i - 1 = j /\ i > 1
        BY <3>2
      <4>2. PICK a : a = control[j]
        OBVIOUS
      <4>3. PICK b : b = control[i]
        OBVIOUS
      <4>4. Link(a, b)
        BY <2>1, <2>2, <4>1, <4>2, <4>3 DEF Stack
      <4>5. FrameBelow(i) = a.frame
        BY <3>2, <4>1, <4>2 DEF FrameBelow
      <4>6. OwnsFrame(i) <=> \/ b.kind \in {"compiled", "nested", "interp", "guarded"}
                             \/ b.kind = "native" /\ a.kind = "native"
        BY <4>1, <4>2, <4>3 DEF OwnsFrame
      <4>7. b.frame = IF OwnsFrame(i) THEN a.frame + 1 ELSE a.frame
        BY <4>4, <4>6 DEF Link, Loops
      <4> QED
        BY <4>3, <4>5, <4>7
    <3> QED
      BY <3>1, <3>2
  <2>5. FrameBelow(Len(control) + 1) = Height(control)
    <3>1. CASE control = <<>>
      <4>1. Len(control) + 1 = 1
        BY <3>1
      <4> QED
        BY <3>1, <4>1 DEF FrameBelow, Height
    <3>2. CASE control # <<>>
      <4>1. n # 0
        BY <2>1, <2>2, <3>2
      <4>2. Len(control) + 1 # 1 /\ (Len(control) + 1) - 1 = Len(control)
        BY <2>2, <4>1
      <4> QED
        BY <3>2, <4>2 DEF FrameBelow, Height
    <3> QED
      BY <3>1, <3>2
  <2>6. DOMAIN control = 1..n
    BY <2>1, <2>2
  <2> QED
    BY <2>1, <2>4, <2>5, <2>6 DEF FramesAccounted
<1> QED
  BY <1>1, Invariance, PTL

\* No upvalue is left open on a frame that is gone, though native code pops frames
\* without closing anything: a callee that could open one has come back through
\* the runtime first (CloseUpvalues in the cleanup of callCompiled).
THEOREM OpenUpvaluesHaveFrames == ClearSpec => []OpenInFrames
<1>1. ASSUME NInv
      PROVE  OpenInFrames
  <2>1. frames \in Seq(C!Frame) /\ open \subseteq 1..Len(frames)
    BY <1>1, Standing
  <2> QED
    BY <2>1 DEF OpenInFrames
<1> QED
  BY <1>1, Invariance, PTL

\* An exit is served at the instruction its frame stopped at, directly, for the
\* callee a native caller left behind, and for every caller that waits.
THEOREM ExitsAreServedInPlace == ClearSpec => []ServedWhereStopped
<1>1. ASSUME NInv
      PROVE  ServedWhereStopped
  <2>1. ExitSound /\ Stack(control, frames) /\ control \in Seq(Activation)
    BY <1>1, Standing DEF NInv
  <2>2. Serves("stub") \/ Serves("deopt") =>
          frames[Top.frame].pc = IF "safepoint" \in ctx.flags THEN ctx.site + 1 ELSE ctx.site
    BY <2>1 DEF ExitSound, Serves
  <2>3. "nested" \in ctx.flags => ctx.inner = frames[Len(frames)].pc
    BY <2>1 DEF ExitSound
  <2>4. \A i \in DOMAIN control :
          control[i].site # 0 => control[i].site = frames[control[i].frame].pc
    <3>1. DOMAIN control = 1..Len(control)
      BY <2>1
    <3> QED
      BY <2>1, <3>1 DEF Stack
  <2> QED
    BY <2>2, <2>3, <2>4 DEF ServedWhereStopped
<1> QED
  BY <1>1, Invariance, PTL

-----------------------------------------------------------------------------
(* The refinement: each step is one of the plain call stack, or none.      *)

\* The instruction of the last frame is executed.
LEMMA Advances ==
  ASSUME failing = FALSE, UNCHANGED <<program, failing>>, frames # <<>>,
         NEW x, x = frames[Len(frames)], C!IsAt(x, C!Ops \ {"call", "tailcall", "meta"}),
         frames' = [frames EXCEPT ![Len(frames)] = C!Past(x)]
  PROVE  C!Next
<1>1. C!Advance
  BY DEF C!Advance, C!Depth
<1> QED
  BY <1>1 DEF C!Next, C!Step

\* The last frame returns to the one below it.
LEMMA Returns ==
  ASSUME failing = FALSE, UNCHANGED <<program, failing>>, frames # <<>>,
         C!AtEnd(frames[Len(frames)]),
         NEW d, d = Len(frames) - 1,
         frames' = IF Len(frames) = 1 THEN <<>>
                   ELSE [Popped EXCEPT ![d] = C!Resumed(Popped[d])]
  PROVE  C!Next
<1>1. Popped = C!Callers
  BY DEF Popped, C!Callers, C!Depth
<1>2. C!Return
  BY <1>1 DEF C!Return, C!Depth
<1> QED
  BY <1>2 DEF C!Next, C!Step

\* The last frame, or the host, calls g.
LEMMA Invokes ==
  ASSUME failing = FALSE, UNCHANGED <<program, failing>>, frames \in Seq(C!Frame),
         NEW g \in Functions, frames' = Append(frames, C!Start(g)),
         NEW x, frames # <<>> =>
           /\ x = frames[Len(frames)]
           /\ \/ C!IsAt(x, {"call", "tailcall", "meta"}) /\ g = program[x.fn][x.pc].callee
              \/ C!IsAt(x, {"host"})
  PROVE  C!Next
<1>1. CASE frames = <<>>
  <2>1. frames' = <<C!Start(g)>>
    BY <1>1
  <2>2. C!Begin
    BY <1>1, <2>1 DEF C!Begin
  <2> QED
    BY <2>2 DEF C!Next, C!Step
<1>2. CASE frames # <<>>
  <2>1. C!Invoke
    BY <1>2 DEF C!Invoke, C!Depth, C!Code
  <2> QED
    BY <2>1 DEF C!Next, C!Step
<1> QED
  BY <1>1, <1>2

\* The last frame raises an error.
LEMMA Errs ==
  ASSUME failing = FALSE, failing' = TRUE, UNCHANGED <<program, frames>>, frames # <<>>
  PROVE  C!Next
BY DEF C!Next, C!Fail, C!Depth

\* Compiled code entered behind the instruction of the last frame.
LEMMA Behind ==
  ASSUME NEW ctl, NEW s, Resume(ctl, frames, s), ctl[Len(ctl)].frame = Len(frames),
         NEW x, x = frames[Len(frames)], s = x.pc
  PROVE  frames' = [frames EXCEPT ![Len(frames)] = C!Past(x)]
BY DEF Resume, C!Past

\* Code that executes the last frame finds it at its instruction.
LEMMA RunsAt ==
  ASSUME NInv, control # <<>>, Top.frame = Len(frames), NEW ops, Runs(ops)
  PROVE  /\ frames # <<>> /\ C!IsAt(frames[Len(frames)], ops)
         /\ ~C!AtEnd(frames[Len(frames)])
         /\ At(Top.frame).callee \in Functions
         /\ At(Top.frame) = program[frames[Len(frames)].fn][frames[Len(frames)].pc]
<1>1. PICK x : x = frames[Len(frames)]
  OBVIOUS
<1>2. ~C!AtEnd(x) /\ At(Top.frame) = program[x.fn][x.pc] /\ program[x.fn][x.pc].op \in ops
  BY <1>1 DEF Runs, At, CodeOf
<1>3. program \in Programs /\ x \in C!Frame /\ frames # <<>>
  BY <1>1, Standing
<1>4. program[x.fn][x.pc].callee \in Functions
  BY <1>2, <1>3, InstructionAt
<1> QED
  BY <1>1, <1>2, <1>3, <1>4 DEF C!IsAt, C!OpOf, C!Code

\* An exit is served for the last frame, which is at the site or, at a safepoint,
\* behind it.
LEMMA SiteAt ==
  ASSUME NInv, ~failing, TopIs(Loops), ctx.status \in {"stub", "deopt", "error"},
         "nested" \notin ctx.flags
  PROVE  /\ control # <<>> /\ Top.frame = Len(frames) /\ frames # <<>> /\ failing = FALSE
         /\ frames[Len(frames)] \in C!Frame
         /\ "safepoint" \notin ctx.flags =>
              /\ frames[Len(frames)].pc = ctx.site /\ ~C!AtEnd(frames[Len(frames)])
              /\ Served = program[frames[Len(frames)].fn][frames[Len(frames)].pc]
              /\ \A ops : Served.op \in ops => C!IsAt(frames[Len(frames)], ops)
<1>1. control # <<>>
  BY DEF TopIs
<1>2. /\ Top.frame = Height(control) /\ Len(frames) = Height(control)
      /\ frames[Top.frame] \in C!Frame /\ program \in Programs /\ Top.frame \in Nat \ {0}
  BY <1>1, Standing
<1>3. frames # <<>> /\ failing = FALSE
  BY <1>2 DEF NInv
<1>4. PICK x \in C!Frame : x = frames[Len(frames)]
  BY <1>2
<1>5. ASSUME "safepoint" \notin ctx.flags
      PROVE  /\ x.pc = ctx.site /\ ~C!AtEnd(x) /\ Served = program[x.fn][x.pc]
             /\ \A ops : Served.op \in ops => C!IsAt(x, ops)
  <2>1. x.pc = ctx.site /\ ctx.site \in DOMAIN program[x.fn]
    BY <1>2, <1>4, <1>5 DEF NInv, ExitSound, CodeOf
  <2>2. PICK n \in Nat : n = Len(program[x.fn]) /\ x.pc \in 1..n
    <3>1. program[x.fn] \in Seq(C!Instruction)
      BY <1>2, ProgramTyped DEF C!Frame
    <3> QED
      BY <2>1, <3>1
  <2>3. ~C!AtEnd(x)
    BY <2>2 DEF C!AtEnd, C!Code
  <2>4. Served = program[x.fn][x.pc]
    BY <1>2, <1>4, <2>1 DEF Served, CodeOf
  <2> QED
    BY <2>1, <2>3, <2>4 DEF C!IsAt, C!OpOf, C!Code
<1> QED
  BY <1>1, <1>2, <1>3, <1>4, <1>5

\* The exits served without a call: the instruction is done, or done already, or
\* left to the interpreter, or an error.
LEMMA ServeMaps ==
  ASSUME NInv, \/ HandleDeopt \/ HandleError \/ HandleMarking \/ HandleSafepoint
               \/ HandleAccess \/ HandleClosure \/ HandleClose
  PROVE  C!Next \/ UNCHANGED <<program, frames, failing>>
<1>1. ~failing /\ TopIs(Loops) /\ ctx.status \in {"stub", "deopt", "error"}
  BY DEF HandleDeopt, HandleError, HandleMarking, HandleSafepoint, HandleAccess, HandleClosure,
         HandleClose, Serves, ServesOp, ServesStub
<1>2. "nested" \notin ctx.flags
  <2>1. CASE HandleDeopt \/ HandleError
    BY <2>1 DEF HandleDeopt, HandleError, Serves, NInv, ExitSound
  <2>2. CASE HandleMarking \/ HandleSafepoint
    BY <2>2 DEF HandleMarking, HandleSafepoint, NInv, ExitSound
  <2>3. CASE HandleAccess \/ HandleClosure \/ HandleClose
    BY <2>3 DEF HandleAccess, HandleClosure, HandleClose, ServesOp, NInv, ExitSound
  <2> QED
    BY <2>1, <2>2, <2>3
<1>3. PICK x \in C!Frame : x = frames[Len(frames)]
  BY <1>1, <1>2, SiteAt
<1>4. /\ control # <<>> /\ Top.frame = Len(frames) /\ frames # <<>> /\ failing = FALSE
      /\ control[Len(control)].frame = Len(frames)
      /\ "safepoint" \notin ctx.flags =>
           /\ x.pc = ctx.site /\ ~C!AtEnd(x)
           /\ \A ops : Served.op \in ops => C!IsAt(x, ops)
  BY <1>1, <1>2, <1>3, SiteAt DEF Top
<1>5. ASSUME Fails \/ \E opened : UpvaluesFail(opened)
      PROVE  C!Next
  <2>1. failing' = TRUE /\ UNCHANGED <<program, frames>>
    BY <1>5 DEF Fails, Raise, UpvaluesFail
  <2> QED
    BY <1>4, <2>1, Errs
<1>6. ASSUME Deoptimise, "safepoint" \notin ctx.flags
      PROVE  UNCHANGED <<program, frames, failing>>
  <2>1. /\ frames' = [frames EXCEPT ![Top.frame] = [frames[Top.frame] EXCEPT !.pc = ctx.site]]
        /\ UNCHANGED <<program, failing>>
    BY <1>4, <1>6 DEF Deoptimise, SetFrame
  <2>2. [x EXCEPT !.pc = x.pc] = x
    BY DEF C!Frame
  <2>3. frames' = [frames EXCEPT ![Len(frames)] = x]
    BY <1>3, <1>4, <1>6, <2>1, <2>2
  <2>4. frames \in Seq(C!Frame)
    BY Standing
  <2>5. frames' = frames
    BY <1>3, <2>3, <2>4
  <2> QED
    BY <2>1, <2>5
<1>7. ASSUME NEW opened, ResumeBehind(opened), "safepoint" \notin ctx.flags,
             Served.op \in C!Ops \ {"call", "tailcall", "meta"}
      PROVE  C!Next
  <2>1. Resume(control, frames, ctx.site) /\ UNCHANGED <<program, failing>>
    BY <1>7 DEF ResumeBehind
  <2>2. frames' = [frames EXCEPT ![Len(frames)] = C!Past(x)]
    BY <1>3, <1>4, <1>7, <2>1, Behind
  <2>3. C!IsAt(x, C!Ops \ {"call", "tailcall", "meta"})
    BY <1>4, <1>7
  <2> QED
    BY <1>3, <1>4, <2>1, <2>2, <2>3, Advances
<1>8. ASSUME ResumeBehind(open), "safepoint" \in ctx.flags
      PROVE  UNCHANGED <<program, frames, failing>>
  <2>1. Resume(control, frames, ctx.site) /\ UNCHANGED <<program, failing>>
    BY <1>8 DEF ResumeBehind
  <2>2. x.pc = ctx.site + 1
    BY <1>1, <1>3, <1>4, <1>8 DEF NInv, ExitSound
  <2>3. frames' = [frames EXCEPT ![Len(frames)] = [x EXCEPT !.pc = x.pc]]
    BY <1>3, <1>4, <2>1, <2>2 DEF Resume
  <2>4. [x EXCEPT !.pc = x.pc] = x
    BY DEF C!Frame
  <2>5. frames \in Seq(C!Frame)
    BY Standing
  <2>6. frames' = frames
    BY <1>3, <2>3, <2>4, <2>5
  <2> QED
    BY <2>1, <2>6
<1>9. CASE HandleDeopt \/ HandleError
  <2>1. "safepoint" \notin ctx.flags
    BY <1>9 DEF HandleDeopt, HandleError, Serves, NInv, ExitSound
  <2> QED
    BY <1>5, <1>6, <1>9, <2>1 DEF HandleDeopt, HandleError
<1>10. CASE HandleMarking
  <2>1. SiteMatches /\ Served.op = "setupval" /\ "safepoint" \notin ctx.flags
    BY <1>10 DEF HandleMarking, Serves, NInv, ExitSound
  <2>2. ResumeBehind(open)
    BY <1>10, <2>1 DEF HandleMarking
  <2>3. "setupval" \in C!Ops \ {"call", "tailcall", "meta"}
    BY DEF C!Ops
  <2> QED
    BY <1>7, <2>1, <2>2, <2>3
<1>11. CASE HandleSafepoint
  <2>1. SiteMatches /\ "safepoint" \in ctx.flags
    BY <1>11 DEF HandleSafepoint, Serves, NInv, ExitSound
  <2>2. ResumeBehind(open) \/ Fails
    BY <1>11, <2>1 DEF HandleSafepoint
  <2> QED
    BY <1>5, <1>8, <2>1, <2>2
<1>12. CASE HandleAccess \/ HandleClosure \/ HandleClose
  <2>1. "safepoint" \notin ctx.flags /\ Served.op \in {"access", "closure", "close"}
    BY <1>12 DEF HandleAccess, HandleClosure, HandleClose, ServesOp, ServesStub
  <2>2. Served.op \in C!Ops \ {"call", "tailcall", "meta"}
    BY <2>1 DEF C!Ops
  <2>3. \/ Fails \/ Deoptimise
        \/ \E opened : ResumeBehind(opened) \/ UpvaluesFail(opened)
    BY <1>12, Zenon DEF HandleAccess, HandleClosure, HandleClose, HandleUpvalues
  <2> QED
    BY <1>5, <1>6, <1>7, <2>1, <2>2, <2>3
<1> QED
  BY <1>9, <1>10, <1>11, <1>12

\* A call through the runtime or the engine invokes the callee, or raises a stack
\* overflow.
LEMMA PushMaps ==
  ASSUME NInv, failing = FALSE, NEW ctl, NEW kinds, NEW g \in Functions, Push(ctl, g, kinds),
         NEW x, x = frames[Len(frames)],
         frames # <<>> =>
           \/ C!IsAt(x, {"call", "tailcall", "meta"}) /\ g = program[x.fn][x.pc].callee
           \/ C!IsAt(x, {"host"})
  PROVE  C!Next
<1>1. frames \in Seq(C!Frame) /\ MaxFrames \in Nat \ {0}
  BY Standing, NativeCallsAssumption DEF NativeCallsAssumption
<1>2. CASE Len(frames) = MaxFrames
  <2>1. failing' = TRUE /\ UNCHANGED <<program, frames>>
    BY <1>2 DEF Push, Raise
  <2>2. frames # <<>>
    BY <1>1, <1>2
  <2>3. ~C!AtEnd(x)
    BY <2>2 DEF C!IsAt
  <2> QED
    BY <2>1, <2>2, <2>3, Errs
<1>3. CASE Len(frames) # MaxFrames
  <2>1. frames' = Append(frames, C!Start(g)) /\ UNCHANGED <<program, failing>>
    BY <1>3 DEF Push
  <2> QED
    BY <1>1, <2>1, Invokes
<1> QED
  BY <1>2, <1>3

\* The calls the runtime serves.
LEMMA CallMaps ==
  ASSUME NInv, HandleCall \/ HandleMeta
  PROVE  C!Next
<1>1. /\ ServesStub /\ SiteMatches /\ "nested" \notin ctx.flags
      /\ Served.op \in {"call", "tailcall", "meta"}
  <2>1. CASE HandleCall
    BY <2>1 DEF HandleCall, ServesOp
  <2>2. CASE HandleMeta
    BY <2>2 DEF HandleMeta, ServesOp, NInv, ExitSound
  <2> QED
    BY <2>1, <2>2
<1>2. /\ ~failing /\ TopIs(Loops) /\ ctx.status = "stub" /\ "safepoint" \notin ctx.flags
  BY <1>1 DEF ServesStub, Serves
<1>3. PICK x \in C!Frame : x = frames[Len(frames)]
  BY <1>1, <1>2, SiteAt
<1>4. /\ frames # <<>> /\ failing = FALSE /\ ~C!AtEnd(x)
      /\ Served = program[x.fn][x.pc] /\ C!IsAt(x, {"call", "tailcall", "meta"})
  BY <1>1, <1>2, <1>3, SiteAt
<1>5. Served.callee \in Functions
  BY <1>3, <1>4, Standing, InstructionAt
<1>6. ASSUME NEW ctl, NEW kinds, Push(ctl, Served.callee, kinds)
      PROVE  C!Next
  BY <1>3, <1>4, <1>5, <1>6, PushMaps
<1>7. CASE HandleMeta
  <2>1. Push(WaitAt(ctx.site), Served.callee, <<"interp">>)
    BY <1>7 DEF HandleMeta, Interpret
  <2> QED
    BY <1>6, <2>1
<1>8. CASE HandleCall
  <2>1. RuntimeCall(WaitAt(ctx.site), Served.callee) \/ Fails
    BY <1>8 DEF HandleCall
  <2>2. CASE Fails
    <3>1. failing' = TRUE /\ UNCHANGED <<program, frames>>
      BY <2>2 DEF Fails, Raise
    <3> QED
      BY <1>3, <1>4, <3>1, Errs
  <2>3. CASE RuntimeCall(WaitAt(ctx.site), Served.callee)
    BY <1>6, <2>3 DEF RuntimeCall
  <2> QED
    BY <2>1, <2>2, <2>3
<1> QED
  BY <1>7, <1>8

\* What the interpreter does, its returns aside.
LEMMA InterpMaps ==
  ASSUME NInv, InterpAdvance \/ InterpFail \/ InterpCall
  PROVE  C!Next
<1>1. ~failing /\ control # <<>> /\ Top.kind \in Interpreters
  BY DEF InterpAdvance, InterpFail, InterpCall, Interpreting, TopIs
<1>2. Top.kind \in CanCall
  BY <1>1 DEF Interpreters, CanCall
<1>3. Top.frame = Len(frames) /\ failing = FALSE
  BY <1>1, <1>2, Outside DEF NInv
<1>4. PICK x : x = frames[Len(frames)]
  OBVIOUS
<1>5. CASE InterpAdvance
  <2>1. /\ Runs({"access", "loop", "closure", "close", "setupval"})
        /\ frames' = [frames EXCEPT ![Len(frames)] = C!Past(x)] /\ UNCHANGED <<program, failing>>
    BY <1>3, <1>4, <1>5 DEF InterpAdvance, SetFrame
  <2>2. frames # <<>> /\ C!IsAt(x, {"access", "loop", "closure", "close", "setupval"})
    BY <1>1, <1>3, <1>4, <2>1, RunsAt
  <2>3. C!IsAt(x, C!Ops \ {"call", "tailcall", "meta"})
    BY <2>2 DEF C!IsAt, C!Ops
  <2> QED
    BY <1>3, <1>4, <2>1, <2>2, <2>3, Advances
<1>6. CASE InterpFail
  <2>1. failing' = TRUE /\ UNCHANGED <<program, frames>>
    BY <1>6 DEF InterpFail, Fails, Raise, UpvaluesFail
  <2>2. frames # <<>>
    BY <1>1, <1>3, Standing
  <2> QED
    BY <1>3, <1>4, <2>1, <2>2, Errs
<1>7. CASE InterpCall
  <2>1. /\ Runs({"call", "tailcall", "meta"})
        /\ Push(control, At(Top.frame).callee, <<"interp">>)
    BY <1>7 DEF InterpCall, Interpret
  <2>2. /\ C!IsAt(x, {"call", "tailcall", "meta"}) /\ At(Top.frame).callee \in Functions
        /\ At(Top.frame) = program[x.fn][x.pc]
    BY <1>1, <1>3, <1>4, <2>1, RunsAt
  <2> QED
    BY <1>3, <1>4, <2>1, <2>2, PushMaps
<1> QED
  BY <1>5, <1>6, <1>7

\* What the host and host functions do.
LEMMA HostMaps ==
  ASSUME NInv, HostCalls \/ HostFail
  PROVE  C!Next
<1>1. failing = FALSE /\ (control = <<>> \/ (control # <<>> /\ Top.kind = "host"))
  BY DEF HostCalls, HostFail, InHost, TopIs, NInv
<1>2. PICK x : x = frames[Len(frames)]
  OBVIOUS
<1>3. control # <<>> => C!IsAt(x, {"host"}) /\ frames # <<>>
  <2>1. "host" \in CanCall
    BY DEF CanCall
  <2>2. control # <<>> => frames # <<>>
    BY Standing
  <2> QED
    BY <1>1, <1>2, <2>1, <2>2, Outside
<1>4. frames # <<>> => C!IsAt(x, {"host"})
  <2>1. control = <<>> => Len(frames) = 0
    BY Standing, ExitFields DEF Height
  <2>2. control = <<>> => frames = <<>>
    BY <2>1, Standing
  <2> QED
    BY <1>3, <2>2
<1>5. CASE HostCalls
  <2>1. PICK g \in Functions : RuntimeCall(control, g) \/ Push(control, g, <<"guarded">>)
    BY <1>5 DEF HostCalls
  <2>2. Push(control, g, <<"compiled", "native">>) \/ Push(control, g, <<"guarded">>)
    BY <2>1 DEF RuntimeCall
  <2> QED
    BY <1>1, <1>2, <1>4, <2>2, PushMaps
<1>6. CASE HostFail
  <2>1. failing' = TRUE /\ UNCHANGED <<program, frames>> /\ control # <<>>
    BY <1>6 DEF HostFail, TopIs
  <2>2. frames # <<>> /\ ~C!AtEnd(x)
    BY <1>3, <2>1 DEF C!IsAt
  <2> QED
    BY <1>1, <1>2, <2>1, <2>2, Errs
<1> QED
  BY <1>5, <1>6

\* A host function returns: its caller's instruction is done.
LEMMA HostReturnMaps ==
  ASSUME NInv, HostReturn
  PROVE  C!Next
<1>1. /\ ~failing /\ control # <<>> /\ Top.kind = "host" /\ UNCHANGED <<program, failing>>
  BY DEF HostReturn, TopIs
<1>2. /\ ctx = NoExit /\ Len(frames) = Height(control) /\ Top.frame = Len(frames)
      /\ frames # <<>> /\ failing = FALSE /\ frames \in Seq(C!Frame)
  BY <1>1, Standing DEF Loops, NInv
<1>3. PICK x : x = frames[Len(frames)]
  OBVIOUS
<1>4. C!IsAt(x, {"host"})
  BY <1>1, <1>3, Outside DEF CanCall
<1>5. PICK c : c = Below /\ c = SubSeq(control, 1, Len(control) - 1)
  BY DEF Below
<1>6. /\ c \in Seq(Activation) /\ c # <<>> /\ Height(c) = Len(frames) /\ Core(c, frames, open)
      /\ Link(c[Len(c)], Top)
  BY <1>1, <1>2, <1>5, LeaveCore
<1>7. PICK b : b = c[Len(c)]
  OBVIOUS
<1>8. b.frame = Len(frames)
  BY <1>6, <1>7 DEF Height
<1>9. Suspended(b)
  BY <1>1, <1>6, <1>7 DEF Link
<1>10. b.kind \in Loops => b.site = x.pc
  <2>1. Len(c) \in 1..Len(c) /\ Stack(c, frames)
    BY <1>6 DEF Core
  <2> QED
    BY <1>3, <1>7, <1>8, <1>9, <2>1 DEF Stack, Suspended
<1>11. /\ IF b.kind \in Loops THEN Resume(c, frames, b.site)
          ELSE frames' = SetFrame(b.frame, C!Past(frames[b.frame]))
  BY <1>5, <1>7 DEF HostReturn
<1>12. frames' = [frames EXCEPT ![Len(frames)] = C!Past(x)]
  <2>1. CASE b.kind \in Loops
    BY <1>3, <1>7, <1>8, <1>10, <1>11, <2>1, Behind
  <2>2. CASE b.kind \notin Loops
    BY <1>3, <1>8, <1>11, <2>2 DEF SetFrame
  <2> QED
    BY <2>1, <2>2
<1>13. C!IsAt(x, C!Ops \ {"call", "tailcall", "meta"})
  BY <1>4 DEF C!IsAt, C!Ops
<1> QED
  BY <1>1, <1>2, <1>3, <1>12, <1>13, Advances

\* An error takes the frames off one by one, and none from the host function or
\* the host that drops it.
LEMMA UnwindMaps ==
  ASSUME NInv, UnwindCall \/ RestoreSnapshot \/ UnwindDeopt \/ HostHasError
  PROVE  C!Next \/ UNCHANGED <<program, frames, failing>>
<1>1. failing = TRUE /\ failing
  BY DEF UnwindCall, RestoreSnapshot, UnwindDeopt, HostHasError, NInv
<1>2. /\ ctx = NoExit /\ Len(frames) = Height(control) /\ frames \in Seq(C!Frame)
      /\ control # <<>> => Top.frame = Len(frames) /\ Top.frame \in Nat \ {0}
  BY <1>1, Standing
<1>3. CASE UnwindCall \/ RestoreSnapshot
  <2>1. control # <<>> /\ UNCHANGED <<program, failing>>
    BY <1>3 DEF UnwindCall, RestoreSnapshot, TopIs
  <2>2. frames' = Popped
    BY <1>2, <1>3, <2>1 DEF UnwindCall, RestoreSnapshot, Popped
  <2>3. frames # <<>>
    BY <1>2, <2>1
  <2>4. C!Unwind
    BY <1>1, <2>1, <2>2, <2>3 DEF C!Unwind, Popped, C!Callers, C!Depth
  <2> QED
    BY <2>4 DEF C!Next
<1>4. CASE UnwindDeopt
  BY <1>4 DEF UnwindDeopt
<1>5. CASE HostHasError /\ failing' = failing
  BY <1>5 DEF HostHasError
<1>6. CASE HostHasError /\ failing' # failing
  <2>1. failing' = FALSE /\ UNCHANGED <<program, frames>> /\ (control = <<>> \/ TopIs({"host"}))
    BY <1>6 DEF HostHasError
  <2>2. frames = <<>> \/ C!IsAt(frames[Len(frames)], {"host"})
    <3>1. CASE control = <<>>
      BY <1>2, <3>1 DEF Height
    <3>2. CASE control # <<>>
      <4>1. Top.kind = "host"
        BY <2>1, <3>2 DEF TopIs
      <4> QED
        BY <1>2, <3>2, <4>1, AtHost
    <3> QED
      BY <3>1, <3>2
  <2>3. C!Caught
    BY <1>1, <2>1, <2>2 DEF C!Caught, C!Depth
  <2> QED
    BY <2>3 DEF C!Next
<1> QED
  BY <1>3, <1>4, <1>5, <1>6

\* A frame that is finished delivers its results to the caller: to compiled code
\* behind its call, to the interpreter, or to a host function.
LEMMA DeliverMaps ==
  ASSUME NInv, failing = FALSE, control # <<>>, "nested" \notin ctx.flags,
         Top.kind \in {"compiled", "nested", "interp", "guarded"},
         C!AtEnd(frames[Top.frame]), Deliver(Below, Popped), UNCHANGED <<program, failing>>
  PROVE  C!Next
<1>1. /\ Core(control, frames, open) /\ Len(frames) = Height(control)
      /\ control \in Seq(Activation) /\ frames \in Seq(C!Frame) /\ Stack(control, frames)
      /\ Top.frame = Height(control)
  BY Standing
<1>2. PICK c : c = Below /\ c = SubSeq(control, 1, Len(control) - 1)
  BY DEF Below
<1>3. /\ c \in Seq(Activation) /\ Stack(c, frames)
      /\ Height(control) \in Nat \ {0} /\ Height(c) = Height(control) - 1
      /\ c # <<>> => /\ Link(c[Len(c)], Top)
                     /\ Called(c[Len(c)], Top)
                          => C!IsAt(frames[Height(c)], CallOps(c[Len(c)], Top))
  BY ZenonT(60), <1>1, <1>2, HeightBelow DEF Top
<1>4. PICK h \in Nat : h = Len(frames) - 1 /\ h = Height(c) /\ h + 1 = Len(frames)
  BY <1>1, <1>3
<1>5. PICK gs : gs = Popped
  OBVIOUS
<1>6. /\ gs \in Seq(C!Frame) /\ Len(gs) = h /\ \A f \in 1..h : gs[f] = frames[f]
  <2>1. h \in 0..Len(frames)
    BY <1>4
  <2>2. /\ SubSeq(frames, 1, h) \in Seq(C!Frame) /\ Len(SubSeq(frames, 1, h)) = h
        /\ \A f \in 1..h : SubSeq(frames, 1, h)[f] = frames[f]
    BY <1>1, <2>1, PrefixOf
  <2>3. gs = SubSeq(frames, 1, h)
    BY <1>4, <1>5 DEF Popped
  <2> QED
    BY <2>2, <2>3, Zenon
<1>7. Deliver(c, gs)
  BY <1>2, <1>5
<1>8. C!AtEnd(frames[Len(frames)]) /\ frames # <<>>
  BY <1>1, <1>4
<1>9. CASE c = <<>>
  <2>1. frames' = gs
    BY <1>7, <1>9 DEF Deliver
  <2>2. h = 0
    BY <1>4, <1>9 DEF Height
  <2>3. Len(frames) = 1 /\ frames' = <<>>
    BY <1>4, <1>6, <2>1, <2>2
  <2> QED
    BY <1>4, <1>8, <2>3, Returns
<1>10. CASE c # <<>>
  <2>1. Len(c) \in 1..Len(c)
    BY <1>3, <1>10
  <2>2. PICK b \in Activation : b = c[Len(c)]
    BY <1>3, <2>1
  <2>3. b.frame = h /\ h # 0
    <3>1. b.frame \in Nat \ {0}
      BY <1>3, <2>1, <2>2, ActivationFrame
    <3> QED
      BY <1>4, <1>10, <2>2, <3>1 DEF Height
  <2>4. Called(b, Top) /\ Link(b, Top) /\ C!IsAt(frames[h], CallOps(b, Top))
    <3>1. Called(b, Top)
      BY <1>1, <1>4, <2>3 DEF Called
    <3> QED
      BY <1>3, <1>4, <1>10, <2>2, <3>1
  <2>5. PICK x \in C!Frame : x = frames[h] /\ x = gs[h]
    <3>1. h \in 1..Len(frames) /\ h \in 1..h
      BY <1>4, <2>3
    <3> QED
      BY <1>1, <1>6, <3>1
  <2>6. b.kind \in Loops => b.site = x.pc
    <3>1. Suspended(b)
      BY <2>4 DEF Link, Suspended
    <3>2. b.kind \in Loops => b.site # 0
      BY <3>1 DEF Suspended
    <3> QED
      BY <1>3, <2>1, <2>2, <2>3, <2>5, <3>2 DEF Stack
  <2>7. [x EXCEPT !.pc = x.pc] = x
    BY DEF C!Frame
  <2>8. (IF b.kind \in Loops THEN [gs[b.frame] EXCEPT !.pc = b.site] ELSE gs[b.frame]) = x
    BY <2>3, <2>5, <2>6, <2>7
  <2>9. frames' = [gs EXCEPT ![h] = C!Resumed(x)]
    <3>1. CASE b.kind \in Loops /\ ~C!IsAt(x, {"tailcall"})
      <4>1. Resume(c, gs, b.site)
        BY <1>7, <1>10, <2>2, <2>8, <3>1 DEF Deliver
      <4>2. frames' = [gs EXCEPT ![h] = C!Past(x)]
        BY <2>2, <2>3, <2>5, <2>6, <3>1, <4>1 DEF Resume, C!Past
      <4>3. ~C!IsAt(x, {"host"})
        <5>1. b.kind # "host" /\ Top.kind # "host"
          BY <3>1 DEF Loops
        <5>2. C!IsAt(x, {"call", "tailcall", "meta"})
          BY <2>4, <2>5, <5>1 DEF CallOps, C!IsAt
        <5> QED
          BY <5>2 DEF C!IsAt
      <4>4. C!Resumed(x) = C!Past(x)
        BY <3>1, <4>3 DEF C!Resumed
      <4> QED
        BY <4>2, <4>4
    <3>2. CASE ~(b.kind \in Loops /\ ~C!IsAt(x, {"tailcall"}))
      <4>1. frames' = [gs EXCEPT ![b.frame] = C!Resumed(x)]
        BY <1>7, <1>10, <2>2, <2>8, <3>2 DEF Deliver
      <4> QED
        BY <2>3, <4>1
    <3> QED
      BY <3>1, <3>2
  <2>10. /\ Len(frames) # 1 /\ frames' = [Popped EXCEPT ![h] = C!Resumed(Popped[h])]
    <3>1. Len(frames) # 1
      BY <1>4, <2>3
    <3>2. frames' = [Popped EXCEPT ![h] = C!Resumed(Popped[h])]
      BY <1>5, <2>5, <2>9, Zenon
    <3> QED
      BY <3>1, <3>2
  <2> QED
    BY <1>4, <1>8, <2>10, Returns
<1> QED
  BY <1>9, <1>10

\* Its caller may fail to take the results.
LEMMA NotStoredMaps ==
  ASSUME NInv, failing = FALSE, control # <<>>, "nested" \notin ctx.flags,
         Top.kind \in {"compiled", "nested", "interp", "guarded"},
         C!AtEnd(frames[Top.frame]), NotStored(Below, Popped), UNCHANGED program
  PROVE  C!Next
<1>1. /\ Core(control, frames, open) /\ Len(frames) = Height(control)
      /\ control \in Seq(Activation) /\ frames \in Seq(C!Frame) /\ Stack(control, frames)
      /\ Top.frame = Height(control)
  BY Standing
<1>2. PICK c : c = Below /\ c = SubSeq(control, 1, Len(control) - 1)
  BY DEF Below
<1>3. /\ c \in Seq(Activation)
      /\ Height(control) \in Nat \ {0} /\ Height(c) = Height(control) - 1
  BY ZenonT(60), <1>1, <1>2, HeightBelow DEF Top
<1>4. PICK h \in Nat : h = Len(frames) - 1 /\ h = Height(c) /\ h + 1 = Len(frames)
  BY <1>1, <1>3
<1>5. /\ c # <<>> /\ C!IsAt(Popped[c[Len(c)].frame], {"call", "meta"})
      /\ frames' = Popped /\ failing' = TRUE
  BY <1>2 DEF NotStored
<1>6. c[Len(c)].frame = h /\ h # 0
  <2>1. Len(c) \in 1..Len(c)
    BY <1>3, <1>5
  <2>2. c[Len(c)].frame \in Nat \ {0}
    BY <1>3, <2>1, ActivationFrame
  <2> QED
    BY <1>4, <1>5, <2>2 DEF Height
<1>7. Popped[h] = frames[h]
  <2>1. h \in 0..Len(frames) /\ h \in 1..h
    BY <1>4, <1>6
  <2>2. SubSeq(frames, 1, h)[h] = frames[h]
    BY <1>1, <2>1, PrefixOf
  <2> QED
    BY <1>4, <2>2 DEF Popped
<1>8. C!IsAt(frames[Len(frames) - 1], {"call", "meta"}) /\ Len(frames) > 1
  BY <1>4, <1>5, <1>6, <1>7
<1>9. C!AtEnd(frames[Len(frames)])
  BY <1>1
<1> QED
  BY <1>5, <1>8, <1>9 DEF C!Next, C!Reject, C!Depth, C!Callers, Popped

\* A call ends.
LEMMA FinishMaps ==
  ASSUME NInv, Finish \/ InterpReturn
  PROVE  C!Next
<1>1. /\ ~failing /\ control # <<>> /\ UNCHANGED program
      /\ (Deliver(Below, Popped) /\ UNCHANGED failing) \/ NotStored(Below, Popped)
  BY DEF Finish, InterpReturn, Serves, Interpreting, TopIs
<1>2. Top.kind \in {"compiled", "nested", "interp", "guarded"}
  BY DEF Finish, InterpReturn, Serves, Interpreting, TopIs, Loops, Interpreters
<1>3. "nested" \notin ctx.flags /\ C!AtEnd(frames[Top.frame])
  <2>1. CASE Finish
    BY <2>1 DEF Finish, Serves, NInv, ExitSound
  <2>2. CASE InterpReturn
    <3>1. C!AtEnd(frames[Top.frame])
      BY <2>2 DEF InterpReturn
    <3> QED
      BY <2>2, <3>1, <1>1, Standing, ExitFields DEF InterpReturn, Interpreting, TopIs, Interpreters, Loops
  <2> QED
    BY <2>1, <2>2
<1>4. failing = FALSE
  BY <1>1 DEF NInv
<1> QED
  BY <1>1, <1>2, <1>3, <1>4, DeliverMaps, NotStoredMaps

\* A native callee's return is the callee's, whether its caller goes on or stops at
\* the safepoint.
LEMMA NativeReturnMaps ==
  ASSUME NInv, NativeCallDone \/ CallSafepoint(1)
  PROVE  C!Next
<1>1. /\ InNative /\ Natives > 1 /\ C!AtEnd(frames[Top.frame]) /\ UNCHANGED <<program, failing>>
  BY DEF NativeCallDone, CallSafepoint, ReturnsToNative, Leave
<1>2. PICK o : o = Below[Len(Below)]
  OBVIOUS
<1>3. PICK gs : gs = frames' /\ gs = BackTo(o.frame)
  BY <1>2 DEF NativeCallDone, CallSafepoint, BackTo
<1>4. /\ control # <<>> /\ Top.kind = "native" /\ failing = FALSE
  BY <1>1, NativeStanding
<1>5. Natives = 2
  BY <1>1, <1>4, LoopBelow
<1>6. o.frame + 1 = Top.frame /\ Top.frame = Len(frames) /\ o.frame \in 1..Len(frames)
  BY <1>1, <1>2, <1>3, <1>5, CalleeGone
<1>7. PICK h \in Nat : h = o.frame /\ h = Len(frames) - 1 /\ h # 0 /\ h + 1 = Len(frames)
  BY <1>6
<1>8. SubSeq(frames, 1, h) = Popped
  BY <1>7 DEF Popped
<1>9. frames' = [Popped EXCEPT ![h] = C!Resumed(Popped[h])] /\ Len(frames) # 1
  <2>1. BackTo(h) = [Popped EXCEPT ![h] = C!Resumed(Popped[h])]
    BY <1>8, Zenon DEF BackTo
  <2>2. frames' = BackTo(h)
    BY <1>3, <1>7, Zenon
  <2> QED
    BY <1>7, <2>1, <2>2
<1>10. frames # <<>> /\ C!AtEnd(frames[Len(frames)])
  BY <1>1, <1>6, <1>7
<1> QED
  BY <1>1, <1>4, <1>7, <1>9, <1>10, Returns

\* Native code executes an instruction, or calls.
LEMMA NativeMaps ==
  ASSUME NInv, NativeAdvance \/ LoopSafepoint(1) \/ ClearCall
  PROVE  C!Next
<1>1. InNative /\ UNCHANGED <<program, failing>>
  BY DEF NativeAdvance, LoopSafepoint, ClearCall, NativeCall, Leave
<1>2. /\ control # <<>> /\ failing = FALSE /\ Top.frame = Len(frames)
  BY <1>1, NativeStanding
<1>3. PICK x : x = frames[Len(frames)]
  OBVIOUS
<1>4. CASE NativeAdvance \/ LoopSafepoint(1)
  <2>1. frames' = [frames EXCEPT ![Len(frames)] = C!Past(x)]
    BY <1>2, <1>3, <1>4 DEF NativeAdvance, LoopSafepoint, SetFrame
  <2>2. Runs({"access"}) \/ Runs({"loop"}) \/ Runs({"setupval"})
    BY <1>4 DEF NativeAdvance, LoopSafepoint
  <2>3. /\ frames # <<>>
        /\ C!IsAt(x, {"access"}) \/ C!IsAt(x, {"loop"}) \/ C!IsAt(x, {"setupval"})
    BY <1>2, <1>3, <2>2, RunsAt
  <2>4. C!IsAt(x, C!Ops \ {"call", "tailcall", "meta"})
    BY <2>3 DEF C!IsAt, C!Ops
  <2> QED
    BY <1>1, <1>2, <1>3, <2>1, <2>3, <2>4, Advances
<1>5. CASE ClearCall
  <2>1. /\ Runs({"call", "tailcall"})
        /\ frames' = Append(SubSeq(frames, 1, Top.frame), C!Start(At(Top.frame).callee))
    BY <1>5 DEF ClearCall, NativeCall
  <2>2. /\ frames # <<>> /\ C!IsAt(x, {"call", "tailcall"})
        /\ At(Top.frame).callee \in Functions
        /\ At(Top.frame) = program[x.fn][x.pc]
    BY <1>2, <1>3, <2>1, RunsAt
  <2>3. PICK g \in Functions : g = At(Top.frame).callee
    BY <2>2
  <2>4. SubSeq(frames, 1, Len(frames)) = frames /\ frames \in Seq(C!Frame)
    BY Standing
  <2>5. frames' = Append(frames, C!Start(g))
    BY <1>2, <2>1, <2>3, <2>4
  <2>6. C!IsAt(x, {"call", "tailcall", "meta"})
    BY <2>2 DEF C!IsAt
  <2> QED
    BY <1>1, <1>2, <1>3, <2>2, <2>3, <2>4, <2>5, <2>6, Invokes
<1> QED
  BY <1>4, <1>5

\* What the program does not see.
LEMMA Hidden ==
  ASSUME NInv, \/ NativeReturn \/ NativeExit(1) \/ NativeExit(2) \/ HandleHostCall \/ FinishNested
               \/ InterpHostCall \/ DeoptReturn
  PROVE  UNCHANGED <<program, frames, failing>>
<1>1. CASE FinishNested
  <2>1. TopIs(Loops) /\ "nested" \in ctx.flags
    BY <1>1 DEF FinishNested, ServesStub, Serves
  <2>2. Len(frames) = Height(control) + 1 /\ Top.frame = Height(control) /\ Top.frame \in Nat
    BY <2>1, Standing DEF NInv, TopIs
  <2>3. Len(frames) # Top.frame
    BY <2>2
  <2> QED
    BY <1>1, <2>3 DEF FinishNested
<1>2. CASE NativeExit(1) \/ NativeExit(2)
  BY <1>2 DEF NativeExit, Leave
<1> QED
  BY <1>1, <1>2 DEF NativeReturn, HandleHostCall, InterpHostCall, DeoptReturn

\* However calls are executed - natively, through a Go loop, by the interpreter,
\* with deoptimisations, safepoints and errors on the way - the program sees a
\* plain call stack: each instruction done once, each call made once, its results
\* delivered once, errors unwound frame by frame.
THEOREM CallsAreMadeOnce == ClearSpec => CallsOnce
<1>1. Init => C!Init
  BY DEF Init, C!Init
<1>2. ASSUME NInv, [ClearNext]_vars
      PROVE  [C!Next]_<<program, frames, failing>>
  <2>1. CASE NativeAdvance \/ LoopSafepoint(1) \/ ClearCall
    BY <1>2, <2>1, NativeMaps
  <2>2. CASE NativeCallDone \/ CallSafepoint(1)
    BY <1>2, <2>2, NativeReturnMaps
  <2>3. CASE \/ NativeReturn \/ NativeExit(1) \/ NativeExit(2) \/ HandleHostCall \/ FinishNested
             \/ InterpHostCall \/ DeoptReturn
    BY <1>2, <2>3, Hidden
  <2>4. CASE Finish \/ InterpReturn
    BY <1>2, <2>4, FinishMaps
  <2>5. CASE \/ HandleDeopt \/ HandleError \/ HandleMarking \/ HandleSafepoint
             \/ HandleAccess \/ HandleClosure \/ HandleClose
    BY <1>2, <2>5, ServeMaps
  <2>6. CASE HandleCall \/ HandleMeta
    BY <1>2, <2>6, CallMaps
  <2>7. CASE InterpAdvance \/ InterpFail \/ InterpCall
    BY <1>2, <2>7, InterpMaps
  <2>8. CASE HostCalls \/ HostFail
    BY <1>2, <2>8, HostMaps
  <2>9. CASE HostReturn
    BY <1>2, <2>9, HostReturnMaps
  <2>10. CASE UnwindCall \/ RestoreSnapshot \/ UnwindDeopt \/ HostHasError
    BY <1>2, <2>10, UnwindMaps
  <2>11. CASE UNCHANGED vars
    BY <2>11 DEF vars
  <2> QED
    BY <1>2, <2>1, <2>2, <2>3, <2>4, <2>5, <2>6, <2>7, <2>8, <2>9, <2>10, <2>11
       DEF ClearNext, RuntimeNext
<1> QED
  BY <1>1, <1>2, Invariance, PTL DEF ClearSpec, CallsOnce, C!Spec
=============================================================================
