------------------------------- MODULE BoardTests -------------------------------
(***************************************************************************)
(* The tests the main loop runs one after the other (main.c), in the order *)
(* of the requests it gets: the secure element, the Ethernet link and the  *)
(* memories.  Each keeps state from one call to the next - a device left   *)
(* behind, a chip still awake, a buffer, the contents of memory - and the  *)
(* hardware goes on while another test runs.                               *)
(***************************************************************************)
EXTENDS Naturals, Sequences, SequencesExt

CONSTANTS Plans,      \* sequences of requests: "ECC_TEST", "NET_TEST", "DRAM_TEST"
          RxRetries, MaxPolls, MaxFaults,
          MaxFrames, RxDepth,
          NRanges, Cached, Size, TestWords, WalkWords, Wrap, CacheSize

\* Those of the three modules together.
ASSUME BoardTestsAssumption ==
         /\ RxRetries \in Nat \ {0} /\ MaxPolls \in Nat /\ MaxFaults \in Nat
         /\ MaxFrames \in Nat /\ RxDepth \in Nat
         /\ NRanges \in Nat \ {0} /\ Cached \subseteq 1..NRanges
         /\ Size \in Nat /\ WalkWords \in 1..Size /\ TestWords \in 1..Size
         /\ Wrap \in Nat \ {0, 1} /\ CacheSize \in Nat \ {0}

VARIABLES plan,
          sePc, device, refs, pins, chip, alive, packet, retries, polls, status, seRet,
          test, mishaps,
          netPc, link, dest, tx, wire, rx, event, tc, netRet, frames, foreign,
          memPc, range, j, at, dram, cache, fault, memRet

SE == INSTANCE SecureElement WITH pc <- sePc, ret <- seRet
NT == INSTANCE NetTest WITH pc <- netPc, ret <- netRet
MT == INSTANCE MemTest WITH pc <- memPc, ret <- memRet

seVars == <<sePc, device, refs, pins, chip, alive, packet, retries, polls, status, seRet,
            test, mishaps>>
netVars == <<netPc, link, dest, tx, wire, rx, event, tc, netRet, frames, foreign>>
memVars == <<memPc, range, j, at, dram, cache, fault, memRet>>
vars == <<plan, seVars, netVars, memVars>>

\* The hardware of a test that is not asked for is sound and quiet: no test sees it.
Init == /\ plan \in Plans
        /\ SE!Init /\ NT!Init /\ MT!Init
        /\ "ECC_TEST" \in ToSet(plan) \/ alive
        /\ "NET_TEST" \in ToSet(plan) \/ link = "open"
        /\ "DRAM_TEST" \in ToSet(plan) \/ fault = MT!NoFault

Returned == sePc = "off" /\ netPc = "off" /\ memPc = "off"

\* mainloop: the branch for the request calls the test and waits for it.
Request(t) == Returned /\ plan # <<>> /\ Head(plan) = t /\ plan' = Tail(plan)

StartEcc == Request("ECC_TEST") /\ SE!Call /\ UNCHANGED <<netVars, memVars>>
StartNet == Request("NET_TEST") /\ NT!Call /\ UNCHANGED <<seVars, memVars>>
StartDram == Request("DRAM_TEST") /\ MT!Call /\ UNCHANGED <<seVars, netVars>>

SeStep == SE!Software /\ UNCHANGED <<plan, netVars, memVars>>
NetStep == NT!Software /\ UNCHANGED <<plan, seVars, memVars>>
MemStep == MT!Software /\ UNCHANGED <<plan, seVars, netVars>>

\* A chip or a link that no request of the plan asks for, now or later, is left alone.
Wanted(t, pc) == t \in ToSet(plan) \/ pc # "off"

ChipStep == Wanted("ECC_TEST", sePc) /\ SE!Chip /\ UNCHANGED <<plan, netVars, memVars>>
LinkStep == Wanted("NET_TEST", netPc) /\ NT!Net /\ UNCHANGED <<plan, seVars, memVars>>
CacheStep == MT!Cache /\ UNCHANGED <<plan, seVars, netVars>>

BoardStep == StartEcc \/ StartNet \/ StartDram \/ SeStep \/ NetStep \/ MemStep

Next == BoardStep \/ ChipStep \/ LinkStep \/ CacheStep

Transmits == Wanted("NET_TEST", netPc) /\ NT!Transmit /\ UNCHANGED <<plan, seVars, memVars>>

\* The processor runs, a link that is up transmits, a full cache makes room.
Spec == Init /\ [][Next]_vars /\ WF_vars(BoardStep) /\ WF_vars(CacheStep) /\ WF_vars(Transmits)
--------------------------------------------------------------------------------
\* The types of the three tests; one of them runs at a time.
TypeOK == /\ SE!TypeOK /\ NT!TypeOK /\ MT!TypeOK
          /\ \/ netPc = "off" /\ memPc = "off"
             \/ sePc = "off" /\ (netPc = "off" \/ memPc = "off")

\* The users of the I2C bus are counted right over failed tests (SecureElement).
BusMatchesUsers == SE!BusMatchesUsers

\* The serial number is the answer to this test's own command (SecureElement).
AnswerOwn == SE!AnswerOwn

\* The Ethernet test succeeds when its own frame comes back, as it is described to
\* (NetTest); it does not.
OwnFramePasses == NT!OwnFramePasses

\* What the code does instead: it passes only thanks to another station (NetTest).
PassIsForeign == NT!PassIsForeign

\* The memory test tells good boards from bad ones as far as it looks (MemTest).
Verdict == MT!Verdict

\* Every test returns to the main loop, also one that follows a failed one, but for
\* the two waits without a limit: for a link that does not transmit, and for an I2C
\* data line that does not follow.
Waits == sePc = "hung" \/ (netPc = "poll" /\ link = "down")
TestsReturn == ~Returned ~> (Returned \/ Waits)
================================================================================
