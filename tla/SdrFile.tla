-------------------------------- MODULE SdrFile -------------------------------
(***************************************************************************)
(* src/sdr/sdr_file.c: files in place of a radio.  Samples are read and    *)
(* written in one of three formats, plain or through zlib, in chunks of at *)
(* most sdr_buffer_len samples.                                            *)
(***************************************************************************)
EXTENDS Integers

CONSTANTS ChunkSize,      \* sdr_buffer_len of the device
          FileSizes,      \* sizes of the input file, in bytes
          TxLengths       \* lengths of what is transmitted, in samples

ASSUME FileAssumption ==
  /\ ChunkSize \in Nat \ {0}
  /\ FileSizes \subseteq Nat
  /\ TxLengths \subseteq Nat

Formats == {"cu8", "cs16", "cf32"}
Kinds == {"none", "plain", "gz"}

VARIABLES fileState,              \* "creating", "open", "closed"
          rx_format, tx_format,
          rxFile, txFile,         \* how the files are opened
          bytesLeft,              \* of the input file
          samplesRead,            \* ghost: samples handed to the demodulator
          fileSize,               \* ghost: size of the input file
          rxEnded,                \* ghost: sdr_file_process_rx has returned -1
          readFailed,             \* ghost: ... because of an error
          txInput, txOffset       \* input_len and offset of sdr_file_process_tx, 0 outside

fileVars == <<fileState, rx_format, tx_format, rxFile, txFile, bytesLeft,
              samplesRead, fileSize, rxEnded, readFailed, txInput, txOffset>>

fileSettings == <<rx_format, tx_format, rxFile, txFile, fileSize>>

SdrFileInit ==
  /\ fileState = "creating"
  /\ rx_format \in Formats /\ tx_format \in Formats
  /\ rxFile \in Kinds /\ txFile \in Kinds
  /\ fileSize \in FileSizes
  /\ bytesLeft = fileSize
  /\ samplesRead = 0 /\ rxEnded = FALSE /\ readFailed = FALSE
  /\ txInput = 0 /\ txOffset = 0

BytesPerSample(format) == CASE format = "cu8" -> 2 [] format = "cs16" -> 4 [] OTHER -> 8

-----------------------------------------------------------------------------
\* sdr_file_create: an allocation or a file that does not open is followed by sdr_file_destroy.
FileCreate ==
  /\ fileState = "creating"
  /\ fileState' \in {"open", "closed"}
  /\ UNCHANGED <<fileSettings, bytesLeft, samplesRead, rxEnded, readFailed, txInput, txOffset>>

\* What the end of the input means to fread (no whole sample) and to gzread (no byte).
AtEnd(bytes) ==
  CASE rxFile = "plain" -> bytes \div BytesPerSample(rx_format) = 0
    [] rxFile = "gz"    -> bytes = 0
    [] OTHER            -> TRUE

\* Mutant: what is read is measured in the samples of the demodulator, not of the file.
FileProcessRxWrongUnit ==
  /\ fileState = "open"
  /\ LET wanted == ChunkSize * BytesPerSample(rx_format)
         bytes  == IF bytesLeft < wanted THEN bytesLeft ELSE wanted
     IN  \/ AtEnd(bytes) /\ rxEnded' = TRUE /\ UNCHANGED <<bytesLeft, samplesRead>>
         \/ /\ ~AtEnd(bytes)
            /\ bytesLeft' = bytesLeft - bytes
            /\ samplesRead' = samplesRead + bytes \div BytesPerSample("cf32")
            /\ UNCHANGED rxEnded
  /\ UNCHANGED <<fileState, fileSettings, readFailed, txInput, txOffset>>

\* sdr_file_process_rx: reads up to a chunk; the bytes of an incomplete last sample are dropped.
FileProcessRx ==
  /\ fileState = "open"
  /\ LET wanted == ChunkSize * BytesPerSample(rx_format)
         bytes  == IF bytesLeft < wanted THEN bytesLeft ELSE wanted
     IN  \/ AtEnd(bytes) /\ rxEnded' = TRUE /\ UNCHANGED <<bytesLeft, samplesRead>>
         \/ /\ ~AtEnd(bytes)
            /\ bytesLeft' = bytesLeft - bytes
            /\ samplesRead' = samplesRead + bytes \div BytesPerSample(rx_format)
            /\ UNCHANGED rxEnded
  /\ UNCHANGED <<fileState, fileSettings, readFailed, txInput, txOffset>>

\* A read fails: gzread returns a negative value, fread the samples in front of the error; the
\* caller cannot tell an error from the end of the file.
FileReadFails ==
  /\ fileState = "open"
  /\ rxFile # "none"
  /\ \/ rxEnded' = TRUE /\ readFailed' = TRUE /\ UNCHANGED <<bytesLeft, samplesRead>>
     \/ /\ rxFile = "plain"
        /\ \E n \in 1..(ChunkSize - 1) : /\ n * BytesPerSample(rx_format) <= bytesLeft
                                         /\ bytesLeft' = bytesLeft - n * BytesPerSample(rx_format)
                                         /\ samplesRead' = samplesRead + n
        /\ UNCHANGED <<rxEnded, readFailed>>
  /\ UNCHANGED <<fileState, fileSettings, txInput, txOffset>>

\* sdr_file_process_tx is entered; without a file it fails at once.
FileProcessTx(len) ==
  /\ fileState = "open"
  /\ txInput = 0
  /\ txFile # "none"
  /\ len > 0
  /\ txInput' = len /\ txOffset' = 0
  /\ UNCHANGED <<fileState, fileSettings, bytesLeft, samplesRead, rxEnded, readFailed>>

\* One turn of its loop; what fwrite and gzwrite return is ignored.
FileWriteChunk ==
  /\ txInput > 0
  /\ LET left  == txInput - txOffset
         chunk == IF left > ChunkSize THEN ChunkSize ELSE left
     IN  /\ txOffset' = txOffset + chunk
         /\ txInput' = IF txOffset' < txInput THEN txInput ELSE 0
  /\ UNCHANGED <<fileState, fileSettings, bytesLeft, samplesRead, rxEnded, readFailed>>

\* sdr_file_destroy
FileDestroy ==
  /\ fileState = "open"
  /\ txInput = 0
  /\ fileState' = "closed"
  /\ UNCHANGED <<fileSettings, bytesLeft, samplesRead, rxEnded, readFailed, txInput, txOffset>>

SdrFileNext ==
  \/ FileCreate
  \/ FileProcessRx
  \/ FileReadFails
  \/ \E len \in TxLengths : FileProcessTx(len)
  \/ FileWriteChunk
  \/ FileDestroy

-----------------------------------------------------------------------------
\* Whatever the format, the compression and the chunks, the demodulator has seen every whole
\* sample of the input file when sdr_file_process_rx reports the end and no read failed, short
\* reads in between included.
WholeFileRead ==
  rxEnded /\ ~readFailed /\ rxFile # "none" => samplesRead = fileSize \div BytesPerSample(rx_format)

=============================================================================
