------------------------------- MODULE Formats ------------------------------
(***************************************************************************)
(* The encodings of the libraries side by side: protocol buffers           *)
(* (LogTransport) and checksums and base64 texts (Codecs).  They share     *)
(* nothing; while one is at work the others rest.                          *)
(***************************************************************************)
EXTENDS LogTransport, Codecs

FormatsInit == Init /\ CodecInit

NoCodecs == chunks = 0 /\ plain = << >> /\ text = << >>
NoMessage == status = "idle" /\ message = "ICoreConfiguration" /\ frame = "plain"

FormatsNext ==
    \/ NoCodecs /\ Encode /\ UNCHANGED codecVars
    \/ NoCodecs /\ EncodeDelimited /\ UNCHANGED codecVars
    \/ NoCodecs /\ Cut /\ UNCHANGED codecVars
    \/ NoCodecs /\ Spoil /\ UNCHANGED codecVars
    \/ NoCodecs /\ Decode /\ UNCHANGED codecVars
    \/ NoCodecs /\ DecodeDelimited /\ UNCHANGED codecVars
    \/ NoCodecs /\ DecodeNoinit /\ UNCHANGED codecVars
    \/ NoCodecs /\ DecodeDelimitedNoinit /\ UNCHANGED codecVars
    \/ NoCodecs /\ Release /\ UNCHANGED codecVars
    \/ NoCodecs /\ Again /\ UNCHANGED codecVars
    \/ NoMessage /\ CodecNext /\ UNCHANGED vars

FormatsSpec == FormatsInit /\ [][FormatsNext]_<<vars, codecVars>>
=============================================================================
