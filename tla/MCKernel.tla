------------------------------ MODULE MCKernel ------------------------------
(* Small instances of Kernel for TLC. *)
EXTENDS Kernel

\* A cfg cannot write negative numbers.
MCTmo == {-2, -1, 0, 10}
MCTmoNoLimit == {-2, -1, 0}
MCTmoLimit == {10}

\* TA_TFIFO | TA_FIRST, TA_TPRI | TA_FIRST and TA_TPRI | TA_CNT.
MCSemAtr == {[tpri |-> FALSE, cnt |-> FALSE], [tpri |-> TRUE, cnt |-> FALSE],
             [tpri |-> TRUE, cnt |-> TRUE]}
MCSemAtrFirst == {[tpri |-> FALSE, cnt |-> FALSE]}
MCSemTmo == {-1, 0}

\* TA_TFIFO | TA_WMUL and TA_TPRI | TA_WSGL.
MCFlgAtr == {[tpri |-> FALSE, wmul |-> TRUE], [tpri |-> TRUE, wmul |-> FALSE]}

\* TWF_ANDW, TWF_ORW | TWF_CLR and TWF_ANDW | TWF_BITCLR.
MCWfMode == {[orw |-> FALSE, clr |-> FALSE, bitclr |-> FALSE],
             [orw |-> TRUE, clr |-> TRUE, bitclr |-> FALSE],
             [orw |-> FALSE, clr |-> FALSE, bitclr |-> TRUE]}
MCFlgAtrOne == {[tpri |-> FALSE, wmul |-> TRUE]}
MCWfModeClr == {[orw |-> TRUE, clr |-> TRUE, bitclr |-> FALSE]}
MCFlgPtn == {{1}, {2}, {1, 2}, {}}
MCFlgTmo == {-1, 0}

\* TA_TFIFO | TA_MFIFO and TA_TPRI | TA_MPRI.
MCMbxAtr == {[tpri |-> FALSE, mpri |-> FALSE], [tpri |-> TRUE, mpri |-> TRUE]}
MCMbxTmo == {-1, 0, 10}

\* The priorities of messages: one that is not valid, a lower and two equal ones.
NoMsgPri == << >>
MCMsgPri == [m \in Msg |-> IF m = 1 THEN 0 ELSE IF m = 2 THEN 2 ELSE 1]
=============================================================================
