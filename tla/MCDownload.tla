----------------------------- MODULE MCDownload -----------------------------
(* Four messages: two with one url in two conversations, two encrypted, of *)
(* which one with an iv that is not supported.                             *)
EXTENDS Download, TLC

CONSTANTS shared1, shared2, secret, other, alice, bob

MCMessages == {shared1, shared2, secret, other}
MCUrl == (secret :> "aesgcm") @@ (other :> "aesgcm8") @@ [m \in MCMessages |-> "https"]
MCPayload == [u \in {"aesgcm", "aesgcm8", "https"} |-> 3]
MCJid == [m \in MCMessages |-> IF m = shared2 THEN bob ELSE alice]

=============================================================================
