-------------------------- MODULE MCWebRtcFraming --------------------------
EXTENDS WebRtcFraming

CONSTANTS M1, M2, M3

\* Payload encodings: one and two bytes fit a channel limit of two bytes;
\* M3, three bytes, is over it.  With a chunk size of five, a two byte
\* message spans two chunks and a one byte message fills its chunk exactly.
MCEnc == (M1 :> <<1>>) @@ (M2 :> <<2, 1>>) @@ (M3 :> <<1, 2, 1>>)
MCMsgsWithinLimit == {M1, M2}
MCMsgsWithOversize == {M1, M3}
=============================================================================
