----------------------------- MODULE Ownership -----------------------------
(***************************************************************************)
(* Who owns which OpenSSL object while a C function runs.  A function is   *)
(* the sequence of its calls that create, use, release or pass on objects, *)
(* with the label each failure jumps to; everything else the function does *)
(* (bytes, curves, messages) is left out.  The machine below runs one such *)
(* function with every combination of failing calls.  A pointer is null,   *)
(* live (it owns one reference) or freed (it still holds the address of    *)
(* what was released).                                                     *)
(***************************************************************************)
EXTENDS Sequences, FiniteSets, Integers

CONSTANTS Programs,     \* function name -> [in, code]
          Names         \* the pointer variables of all functions

VARIABLES entry,        \* the function the run started in
          stack,        \* frames [fn, pc, arg], innermost last
          ptr,          \* pointer variable -> "null" | "live" | "freed"
          releaser,     \* pointer variable -> function that released its object
          lost,         \* objects no pointer reaches any more: <<function, variable>>
          outcome,      \* "running", "ok", "fail", or how the run became undefined
          fault         \* <<>>, or <<function, function that released the object>>

ovars == <<entry, stack, ptr, releaser, lost, outcome, fault>>

----------------------------------------------------------------------------
(* The steps a function is written with.  The label "next" means that the  *)
(* code does not look at the result.                                       *)

Step(op, x, use, err) == [op |-> op, x |-> x, use |-> use, err |-> err]

New(x, use, err) == Step("new", x, use, err)      \* x = create(use); NULL -> err
Check(use, err)  == Step("check", "", use, err)   \* call(use) failed -> err
Free(x)          == Step("free", x, {}, "next")   \* if (x) free(x)
Null(x)          == Step("null", x, {}, "next")   \* x = NULL
Keep(x)          == Step("keep", x, {}, "next")   \* somebody else owns it now
Hand(x, y)       == Step("hand", x, {y}, "next")  \* y = x, x is not used again
IfNull(x, l)     == Step("ifnull", x, {}, l)      \* if (!x) goto l
Maybe(l)         == Step("maybe", "", {}, l)      \* a test on data: goto l or not
Goto(l)          == Step("goto", "", {}, l)
At(l)            == Step("at", l, {}, "next")     \* the label l
Call(f, x, err)  == Step("call", x, {f}, err)     \* f(&x) failed -> err
Ret(v)           == Step("ret", v, {}, "next")    \* return "ok" or "fail"

Fn(in, code) == [in |-> in, code |-> code]        \* in: the state of *arg on entry

----------------------------------------------------------------------------
Code(f) == Programs[f].code

Frame == stack[Len(stack)]
Cur   == Code(Frame.fn)[Frame.pc]

\* "*arg" is the variable whose address the caller passed.
Var(x) == IF x = "*arg" THEN Frame.arg ELSE x

Variables(code) ==
    {code[i].x : i \in {j \in DOMAIN code : code[j].op \in {"new", "call"}}} \ {"*arg"}

Locals(f) == Variables(Code(f))

Target(f, l) == CHOOSE i \in DOMAIN Code(f) : Code(f)[i] = At(l)

JumpFrom(st, l) ==
    LET d == Len(st)
    IN  [st EXCEPT ![d].pc = IF l = "next" THEN @ + 1 ELSE Target(st[d].fn, l)]

Sound == \A u \in Cur.use : ptr[Var(u)] = "live"

Running(op) == stack # <<>> /\ Cur.op = op

OwnInit ==
    /\ entry \in DOMAIN Programs
    /\ stack = <<[fn |-> entry, pc |-> 1, arg |-> "caller"]>>
    /\ ptr = [n \in Names |-> IF n = "caller" THEN Programs[entry].in ELSE "null"]
    /\ releaser = [n \in Names |-> ""]
    /\ lost = {}
    /\ outcome = "running"
    /\ fault = <<>>

Create ==
    /\ Running("new") /\ Sound
    /\ \E ok \in BOOLEAN :
          /\ ptr' = [ptr EXCEPT ![Var(Cur.x)] = IF ok THEN "live" ELSE "null"]
          /\ stack' = JumpFrom(stack, IF ok THEN "next" ELSE Cur.err)
    /\ lost' = lost \cup (IF ptr[Var(Cur.x)] = "live" THEN {<<Frame.fn, Cur.x>>} ELSE {})
    /\ UNCHANGED <<entry, releaser, outcome, fault>>

Use ==
    /\ Running("check") /\ Sound
    /\ \E l \in {"next", Cur.err} : stack' = JumpFrom(stack, l)
    /\ UNCHANGED <<entry, ptr, releaser, lost, outcome, fault>>

\* A call that reads a released object or a null pointer: the run is over.
Misuse ==
    /\ stack # <<>> /\ Cur.op \in {"new", "check"} /\ ~Sound
    /\ outcome' = IF \E u \in Cur.use : ptr[Var(u)] = "freed" THEN "stale" ELSE "null"
    /\ fault' = <<Frame.fn, "">>
    /\ stack' = <<>>
    /\ UNCHANGED <<entry, ptr, releaser, lost>>

Release ==
    /\ Running("free")
    /\ LET x == Var(Cur.x)
       IN  IF ptr[x] = "freed"
           THEN /\ outcome' = "twice" /\ stack' = <<>>
                /\ fault' = <<Frame.fn, releaser[x]>>
                /\ UNCHANGED <<ptr, releaser>>
           ELSE /\ ptr' = [ptr EXCEPT ![x] = IF @ = "live" THEN "freed" ELSE @]
                /\ releaser' = [releaser EXCEPT ![x] = Frame.fn]
                /\ stack' = JumpFrom(stack, "next")
                /\ UNCHANGED <<outcome, fault>>
    /\ UNCHANGED <<entry, lost>>

Assign ==
    /\ stack # <<>> /\ Cur.op \in {"null", "keep", "hand"}
    /\ ptr' = [n \in Names |->
                 IF n = Var(Cur.x) THEN "null"
                 ELSE IF Cur.op = "hand" /\ n \in {Var(u) : u \in Cur.use}
                      THEN ptr[Var(Cur.x)] ELSE ptr[n]]
    /\ lost' = lost \cup (IF Cur.op = "null" /\ ptr[Var(Cur.x)] = "live"
                          THEN {<<Frame.fn, Cur.x>>} ELSE {})
    /\ stack' = JumpFrom(stack, "next")
    /\ UNCHANGED <<entry, releaser, outcome, fault>>

Jump ==
    /\ stack # <<>> /\ Cur.op \in {"ifnull", "maybe", "goto", "at"}
    /\ \E l \in CASE Cur.op = "ifnull" -> {IF ptr[Var(Cur.x)] = "null" THEN Cur.err ELSE "next"}
                  [] Cur.op = "maybe"  -> {"next", Cur.err}
                  [] OTHER             -> {Cur.err} :
          stack' = JumpFrom(stack, l)
    /\ UNCHANGED <<entry, ptr, releaser, lost, outcome, fault>>

Enter ==
    /\ Running("call")
    /\ \E f \in Cur.use :
          /\ stack' = Append(stack, [fn |-> f, pc |-> 1, arg |-> Var(Cur.x)])
          /\ ptr' = [n \in Names |-> IF n \in Locals(f) THEN "null" ELSE ptr[n]]
    /\ UNCHANGED <<entry, releaser, lost, outcome, fault>>

\* What a local still owns when its function returns can never be released.
Return ==
    /\ Running("ret")
    /\ LET f == Frame.fn
           caller == SubSeq(stack, 1, Len(stack) - 1)
       IN  /\ lost' = lost \cup {<<f, x>> : x \in {y \in Locals(f) : ptr[y] = "live"}}
           /\ ptr' = [n \in Names |-> IF n \in Locals(f) THEN "null" ELSE ptr[n]]
           /\ IF caller = <<>>
              THEN stack' = <<>> /\ outcome' = Cur.x
              ELSE LET c == caller[Len(caller)]
                   IN  /\ stack' = JumpFrom(caller, IF Cur.x = "ok" THEN "next"
                                                    ELSE Code(c.fn)[c.pc].err)
                       /\ UNCHANGED outcome
    /\ UNCHANGED <<entry, releaser, fault>>

OwnNext == \/ Create \/ Use \/ Misuse \/ Release \/ Assign \/ Jump \/ Enter \/ Return

OwnTypeOK ==
    /\ entry \in DOMAIN Programs
    /\ ptr \in [Names -> {"null", "live", "freed"}]
    /\ outcome \in {"running", "ok", "fail", "stale", "null", "twice"}
    /\ (stack = <<>>) = (outcome # "running")
=============================================================================
