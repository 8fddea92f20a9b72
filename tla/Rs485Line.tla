------------------------------ MODULE Rs485Line ------------------------------
(***************************************************************************)
(* The half-duplex transport of Modules/IOModule/IOBus/Rs485Bus: one UART, *)
(* a receive buffer, and the silence that ends a frame.                    *)
(*                                                                         *)
(* The module has no variables: a line b is a record and every method of   *)
(* the class is an operator on it.  Bytes are abstracted to whose answer   *)
(* they are: Answers is a set of tags, b.fifo holds the answers whose      *)
(* bytes sit in the UART, b.rx those read into the buffer, and two answers *)
(* in one buffer are a frame no decoder accepts.  b.gap says that the      *)
(* inter-frame silence has passed since the last byte.                     *)
(*                                                                         *)
(* LeftAsItIs is a mistake easily made in place of Aborted.                *)
(***************************************************************************)

Line(Answers) ==
    [state : {"Idle", "Transmitting", "Receiving"}, frame : BOOLEAN,
     rx : SUBSET Answers, fifo : SUBSET Answers, gap : BOOLEAN]

Begun == [state |-> "Idle", frame |-> FALSE, rx |-> {}, fifo |-> {}, gap |-> FALSE]

quiet(b) == b.state = "Idle" /\ ~b.frame /\ b.gap

receivingFrame(b) == b.state = "Receiving" /\ b.rx # {}

(* tick(): what arrives while nothing was asked is thrown away; the end of *)
(* a transmission (sent) opens the receiver; a silence closes the frame.   *)
Drained(b) ==
    IF b.state = "Idle" /\ ~b.frame
    THEN [b EXCEPT !.fifo = {}, !.gap = b.gap /\ b.fifo = {}]
    ELSE b

Turned(b, sent) ==
    IF b.state = "Transmitting" /\ sent
    THEN [b EXCEPT !.state = "Receiving", !.gap = FALSE]
    ELSE b

Read(b) ==
    LET r == [b EXCEPT !.rx = b.rx \cup b.fifo, !.fifo = {},
                       !.gap = b.gap /\ b.fifo = {}]
    IN  IF b.state # "Receiving" \/ b.frame THEN b
        ELSE IF r.rx # {} /\ r.gap
             THEN [r EXCEPT !.frame = TRUE, !.state = "Idle"]
             ELSE r

Ticked(b, sent) == Read(Turned(Drained(b), sent))

(* startTransmit() empties the UART first; it refuses a line in use.       *)
Startable(b) == b.state = "Idle" /\ ~b.frame

Started(b) == [b EXCEPT !.state = "Transmitting", !.rx = {}, !.fifo = {}]

Taken(b) == [b EXCEPT !.frame = FALSE, !.rx = {}]

LeftAsItIs(b) == b

Aborted(b) == Begun

(* A unit of time is longer than the inter-frame silence.                  *)
Heard(b, answers) == [b EXCEPT !.fifo = b.fifo \cup answers, !.gap = TRUE]
=============================================================================
