---------------------------- MODULE MCWebClient ----------------------------
(* One ASDU of each family parseASDU decodes, and some that it leaves out. *)
EXTENDS WebClient

M == 60000
Object(ioa, value, quality, event) ==
    [ioa |-> ioa, value |-> value, quality |-> quality, event |-> event]
Asdu(type, objects) ==
    [type |-> type, cot |-> "data", negative |-> FALSE, objects |-> objects]

\* The clock stands at two minutes past the hour; the events lie up to ten
\* minutes back, in the hour before.
MCTimes == {62 * M + 7500}
Late == 52 * M + 59999

MCDecades == {10, 100}

\* The values of M_ME_NC_1 and M_ME_ND_1 have more digits than are written.
MCAsdus ==
    {Asdu("M_SP_TA_1", <<Object(1, 0, 1, Late), Object(1, 1, 0, 62 * M)>>),
     Asdu("M_DP_TB_1", <<Object(2, 2, 1, Late)>>),
     Asdu("M_ST_NA_1", <<Object(1, 5, 1, 0)>>),
     Asdu("M_ME_TD_1", <<Object(3, 8, 1, 0)>>),
     Asdu("M_ME_TB_1", <<Object(1, 4, 1, Late)>>),
     Asdu("M_ME_NC_1", <<Object(1, NaN, 0, 0), Object(3, 1234567, 0, 0)>>),
     Asdu("M_ME_TF_1", <<Object(2, Infinite, 0, 0)>>),
     Asdu("M_IT_TA_1", <<Object(3, 2, 1, Late)>>),
     Asdu("M_EP_TA_1", <<Object(2, 1, 0, Late)>>),
     Asdu("M_PS_NA_1", <<Object(1, {0}, 1, 0)>>),
     Asdu("M_BO_TA_1", <<Object(2, 9, 0, Late)>>),
     Asdu("M_EP_TE_1", <<Object(3, 0, 0, Late)>>),
     Asdu("M_ME_ND_1", <<Object(2, -12345650, 1, 0)>>),
     Asdu("M_EI_NA_1", <<Object(0, 0, 0, 0)>>),
     [Asdu("C_SC_NA_1", <<Object(2, 0, 0, 0)>>) EXCEPT !.cot = "term", !.negative = TRUE]}
MCCommands == {[type |-> "C_SC_NA_1", ioa |-> 1]}
=============================================================================
