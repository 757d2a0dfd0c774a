----------------------------- MODULE MCSdrDevice ------------------------------
(***************************************************************************)
(* SdrDevice for TLC.                                                      *)
(***************************************************************************)
EXTENDS SdrDevice

\* One rate below all filters, one for each filter, one that needs none.
MCRates == {500000, 600000, 1500000, 3000000}

\* Shorter than a batch, a whole number of batches, and one more.
MCFrames == {1, 4, 5}

\* Smaller than the staging buffer of 3, equal to it, and more than two of them.
MCTransfers == {1, 3, 7}

MCTunerRates == {3, 10}

\* Whole samples of all formats, and incomplete last ones of each.
MCFileSizes == {0, 1, 16, 19, 29}

MCTxLengths == {1, 2, 5}

=============================================================================
