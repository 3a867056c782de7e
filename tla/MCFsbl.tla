-------------------------------- MODULE MCFsbl --------------------------------
(***************************************************************************)
(* Instances of Fsbl: images with and without PMU firmware, a bitstream,   *)
(* partitions for the RPU and the second APU core, headers that are        *)
(* refused, and images whose partitions lie on a second device.            *)
(***************************************************************************)
EXTENDS Fsbl

P(c, place) == [cpu |-> c, place |-> place, owner |-> "fsbl", sum |-> TRUE,
                valid |-> TRUE, aa64 |-> TRUE]
Image(second, parts) == [table |-> TRUE, second |-> second, parts |-> parts]

App == P("a53_0", "ram")

MCImages == {
    Image(0, <<P("pmu", "ram"), P("pmu", "ram"), P("none", "pl"), App, App>>),
    Image(0, <<P("r5_0", "ram"), P("a53_1", "ram"), P("none", "ram"), P("r5_0", "xip")>>),
    Image(0, <<App, [P("r5_0", "ram") EXCEPT !.owner = "other", !.valid = FALSE]>>),
    Image(0, <<App, [P("a53_1", "ram") EXCEPT !.sum = FALSE]>>),
    Image(0, <<[App EXCEPT !.valid = FALSE]>>),
    Image(0, <<P("r5_0", "ram"), [App EXCEPT !.aa64 = FALSE]>>),
    [Image(0, <<App>>) EXCEPT !.table = FALSE],
    Image(5, <<App>>),
    Image(1, <<App, P("a53_1", "xip")>>)}

MCSupported == {"a53_0", "a53_1", "r5_0"}

================================================================================
