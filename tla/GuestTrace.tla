----------------------------- MODULE GuestTrace -----------------------------
(***************************************************************************)
(* What the three guest architectures share: the tracing state that the    *)
(* trace opcodes switch, what the last instruction really did (done), and  *)
(* what its helpers gave to qem_trace_output (out).                        *)
(*                                                                         *)
(* An entry of done is one memory or cache event of the instruction, with   *)
(* its true description.  Its "why" names the known reasons for which the   *)
(* record may say something else; the properties hold where there is none.  *)
(***************************************************************************)
EXTENDS Naturals, Sequences, FiniteSets

VARIABLES
    target,             \* the guest architecture QEMU is built for
    meta,               \* QEM_TRACE_GATHER_META of the build
    qem_tracing_state,  \* the kinds traced: "I" (ITRACE), "D" (DTRACE)
    cpu,                \* the registers and the MMU of the guest
    done,               \* the events of the last instruction
    out,                \* the records it made, by the number of the helper's call
    ended               \* a helper ended QEMU

guestVars == <<target, meta, qem_tracing_state, cpu, done, out, ended>>

INSTANCE TraceFlags WITH QEM_TRACE_GATHER_META <- meta

Kinds == {"I", "D"}

(* No instruction is in progress, and QEMU runs.                            *)
Idle == ~ended /\ done = <<>> /\ out = <<>>

(* A guest of this target starts an instruction.                            *)
Running(guest) == target = guest /\ Idle

Event(kind, d, virt, phys, performed, why) ==
    [kind |-> kind, d |-> [d EXCEPT !.inst = (kind = "I")], virt |-> virt, phys |-> phys,
     performed |-> performed, why |-> why]

(* A helper returns at once unless its kind is traced: the calls that go on. *)
Traced(calls) == {i \in DOMAIN calls : calls[i].kind \in qem_tracing_state}

Reason(cond, name) == IF cond THEN {name} ELSE {}

-----------------------------------------------------------------------------
(* The print back end: the state is assigned, not or-ed.                    *)
qem_trace_enable(type) ==
    /\ Idle
    /\ qem_tracing_state' = type
    /\ UNCHANGED <<target, meta, cpu, done, out, ended>>

qem_trace_disable(type) ==
    /\ Idle
    /\ qem_tracing_state' = qem_tracing_state \ type
    /\ UNCHANGED <<target, meta, cpu, done, out, ended>>

(* The guest goes on to its next instruction.                               *)
Retire ==
    /\ ~Idle /\ ~ended
    /\ done' = <<>> /\ out' = <<>>
    /\ UNCHANGED <<target, meta, qem_tracing_state, cpu, ended>>
=============================================================================
