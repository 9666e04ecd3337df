----------------------------- MODULE MCRegisters -----------------------------
(***************************************************************************)
(* Several programs in one run of TLC: a behaviour runs one of them, in    *)
(* one situation, both named by `program`; its variables are the registers *)
(* r1 to r24, and those it does not use stay 0.                            *)
(***************************************************************************)
EXTENDS Integers

VARIABLES program, r1, r2, r3, r4, r5, r6, r7, r8, r9, r10, r11, r12, r13, r14,
          r15, r16, r17, r18, r19, r20, r21, r22, r23, r24

all == <<program, r1, r2, r3, r4, r5, r6, r7, r8, r9, r10, r11, r12, r13, r14,
         r15, r16, r17, r18, r19, r20, r21, r22, r23, r24>>

Runs(p, Step) == program = p /\ Step /\ UNCHANGED program

On(p) == program = p

\* The registers a program does not use.
From17 == <<r17, r18, r19, r20, r21, r22, r23, r24>>
From16 == <<r16, From17>>
From15 == <<r15, From16>>
From14 == <<r14, From15>>
From12 == <<r12, r13, From14>>
From11 == <<r11, From12>>
From10 == <<r10, From11>>
From9 == <<r9, From10>>
From8 == <<r8, From9>>
From7 == <<r7, From8>>
From6 == <<r6, From7>>
From5 == <<r5, From6>>
Clear17 == r17 = 0 /\ r18 = 0 /\ r19 = 0 /\ r20 = 0 /\ r21 = 0 /\ r22 = 0 /\ r23 = 0 /\ r24 = 0
Clear16 == r16 = 0 /\ Clear17
Clear15 == r15 = 0 /\ Clear16
Clear14 == r14 = 0 /\ Clear15
Clear12 == r12 = 0 /\ r13 = 0 /\ Clear14
Clear11 == r11 = 0 /\ Clear12
Clear10 == r10 = 0 /\ Clear11
Clear9 == r9 = 0 /\ Clear10
Clear8 == r8 = 0 /\ Clear9
Clear7 == r7 = 0 /\ Clear8
Clear6 == r6 = 0 /\ Clear7
Clear5 == r5 = 0 /\ Clear6
=============================================================================
