------------------------------- MODULE MCPdp8 -------------------------------
(* A program that echoes each key, multiplies it by 5 and stores the product,
   up to ctrl-\, with an interrupt handler that only saves and restores AC and
   link.  The loader reads it from a tape as the assembler punches it. *)
EXTENDS Pdp8, SequencesExt

Factor == 5
Results == \o160

Program == <<
    <<\o1, <<\o5100>>>>,                            \* JMP HANDLER
    <<\o10, <<Results>>>>,                          \* auto-index
    <<\o30, <<Factor, \o7744, \o177>>>>,            \* FACTOR, -ctrl-\, parity mask
    \* HANDLER: DCA AC, RAR, DCA LINK, TAD LINK, RAL, TAD AC, ION, JMP I 0
    <<\o100, <<\o3020, \o7010, \o3021, \o1021, \o7004, \o1020, \o6001, \o5400>>>>,
    \* ION; KSF, JMP .-1, KRB, AND MASK, DCA KEY, TAD KEY, TLS, TSF, JMP .-1,
    \* JMS TIMES, DCA I 10; TAD KEY, TAD -ctrl-\, SZA CLA, JMP 201; IOF, HLT
    <<\o200, <<\o6001, \o6031, \o5201, \o6036, \o32, \o3024, \o1024, \o6046, \o6041, \o5210,
               \o4240, \o3410, \o1024, \o1031, \o7640, \o5201, \o6002, \o7402>>>>,
    \* TIMES: TAD KEY, DCA X, DCA P, TAD FACTOR, MQL; TAD X, CLL RAR, DCA X, SNL,
    \* JMP .+4, MQA, TAD P, DCA P; MQA, CLL RAL, MQL, TAD X, SZA CLA, JMP 246;
    \* TAD P, BSW, RTL, RTR, BSW, ISZ COUNT, NOP, JMP I TIMES
    <<\o240, <<0, \o1024, \o3025, \o3027, \o1030, \o7421, \o1025, \o7110, \o3025, \o7420,
               \o5256, \o7501, \o1027, \o3027, \o7501, \o7104, \o7421, \o1025, \o7640, \o5246,
               \o1027, \o7002, \o7006, \o7012, \o7002, \o2033, \o7000, \o5640>>>> >>

Punched(block) == putorg(block[1]) \o FlattenSeq([i \in DOMAIN block[2] |-> Halves(block[2][i])])
MCTape ==
    Leader \o FlattenSeq([i \in DOMAIN Program |-> Punched(Program[i])]) \o <<0, 0>> \o Leader
MCTyped == <<131, 2, 28>>

\* Wherever interrupts take the processor to the handler: what is echoed and stored
\* are the keys that were read and their products.
ResultsRight ==
    at = "stopped" =>
        LET n == Cell(mem, \o10) - Results
        IN  /\ n = Len(taken) - IF host = "p8" THEN 1 ELSE 0
            /\ printed = [i \in 1 .. n |-> taken[i] % \o200]
            /\ \A i \in 1 .. n :
                Cell(mem, Results + i) = mask((taken[i] % \o200) * Factor)
=============================================================================
