-------------------------------- MODULE MCFlash --------------------------------
(***************************************************************************)
(* Boards for the runs of FlashTest.  16 MB are 16 pages here, a sector 4. *)
(***************************************************************************)
EXTENDS FlashTest

\* A board with two chips of one kind (the upper one is not there in single mode).
Board(mode, make, mbytes) == [mode |-> mode,
                              make |-> [c \in Chips |-> make],
                              size |-> [c \in Chips |-> MB(mbytes)]]

\* Boards on which TEST_ADDRESS lies inside the flash and FlashEnterExit4BAddMode
\* reaches every chip it has to reach.
GoodBoards == {Board("single", "spansion", 64), Board("single", "micron", 64),
               Board("single", "macronix", 128),
               Board("stacked", "micron", 64), Board("stacked", "spansion", 64),
               Board("parallel", "macronix", 128)}

SpansionParallel == {Board("parallel", "spansion", 32)}
================================================================================
