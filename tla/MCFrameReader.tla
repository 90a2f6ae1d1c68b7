--------------------------- MODULE MCFrameReader ----------------------------
(***************************************************************************)
(* Small payloads of every kind the codec tells apart: one below the       *)
(* compression threshold, one that shrinks, one that does not, and one     *)
(* whose zstd frame is small and whose plaintext is above the limit.       *)
(***************************************************************************)
EXTENDS FrameReader

MCTexts == {"small", "text", "noise", "bomb"}
MCPlainSize == [t \in MCTexts |-> CASE t = "small" -> 0 [] t = "bomb" -> 2 [] OTHER -> 1]
MCZipSize   == [t \in MCTexts |-> CASE t = "noise" -> 2 [] OTHER -> 0]

By(by, bytes, flags) == [by |-> by, bytes |-> bytes, flags |-> flags]
Zip(text) == [of |-> text, zipped |-> TRUE]
MCRequests ==
    {By("client", Plain("text"), {}), By("client", Plain("text"), {"RAW"}),
     By("client", Plain("noise"), {"FRAGMENTED"}), By("client", Zip("text"), {"COMPRESSED"}),
     By("client", Zip("bomb"), {"COMPRESSED"}), By("crc", Plain("small"), {"COMPRESSED"}),
     By("crc", Plain("small"), {"MAC"}), By("mac", Plain("small"), {}),
     By("corrupt", Plain("small"), {})}

MCTarget == <<"k", "e", "r">>
=============================================================================
