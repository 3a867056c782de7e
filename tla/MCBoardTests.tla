------------------------------ MODULE MCBoardTests ------------------------------
(***************************************************************************)
(* The orders of requests that BoardTests is checked with: each test after *)
(* itself, and two of them in turn.                                        *)
(***************************************************************************)
EXTENDS BoardTests

MCPlans == {<<"ECC_TEST", "ECC_TEST", "ECC_TEST">>,
            <<"NET_TEST", "NET_TEST", "NET_TEST">>,
            <<"DRAM_TEST", "DRAM_TEST">>,
            <<"ECC_TEST", "NET_TEST", "ECC_TEST">>}
================================================================================
