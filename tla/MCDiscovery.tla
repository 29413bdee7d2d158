---------------------------- MODULE MCDiscovery ----------------------------
(***************************************************************************)
(* Discovery for TLC: hosts 1 and 2 and the network address 0 are in the   *)
(* network that is scanned and 3 is not; the other networks are each       *)
(* refused for one reason.                                                 *)
(***************************************************************************)
EXTENDS Discovery

Home == [aligned |-> TRUE, version |-> 4, private |-> TRUE, prefix |-> 24,
         addresses |-> {0, 1, 2}, hosts |-> <<1, 2>>]
\* More than get_int may give, so that a wrong limit would show.
MCRetryLimits == 0..11

MCNetworks ==
    {Home, [Home EXCEPT !.aligned = FALSE], [Home EXCEPT !.version = 6],
     [Home EXCEPT !.private = FALSE], [Home EXCEPT !.prefix = 23]}

\* Nothing, an all-in-one with every driver, one whose scanner only HPLIP knows.
MCProbeAnswers == {{}, {"ipp", "escl", "escls", "hpaio"}, {"ipp", "hpaio"}}

\* Nothing; a scanner; one whose metadata points outside, one that answers from there and
\* one that answers from an address no host has.
MCWsdAnswers ==
    {<<>>, <<[at |-> 1, hosted |-> 1], [at |-> 1, hosted |-> 1]>>,
     <<[at |-> 2, hosted |-> 3], [at |-> 3, hosted |-> 1],
       [at |-> 0, hosted |-> 2]>>}

\* A printer that is announced again with other properties, before and after a scanner.
MCMdnsAnswers ==
    LET printer(txt) == Result(1, "printer", "ipp", "ipp", txt)
        scanner == Result(1, "scanner", "airscan-escl", "escl", 1)
    IN  {<<>>, <<printer(1), scanner, printer(2)>>, <<printer(2), printer(1), scanner>>}
=============================================================================
