------------------------------- MODULE MCSerPlus -------------------------------
(***************************************************************************)
(* SerPlus with rings of six bytes and packets of five.  The script is     *)
(* twice as long on the wire, with an escaped 255 and a signal in it; what *)
(* arrives may be an escape character and the start of a command.          *)
(***************************************************************************)
EXTENDS SerPlus

MCScripts == {<<[kind |-> "data", bytes |-> <<65, 255>>],
                [kind |-> "signal", signal |-> 8]>>}

MCLineBytes == {SB, IAC}
=============================================================================
