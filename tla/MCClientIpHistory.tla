------------------------- MODULE MCClientIpHistory -------------------------
(* Two clients, three addresses, batches of up to two addresses a client.   *)
EXTENDS ClientIpHistory

UpToTwo == {s \in UNION {[1 .. n -> Ips] : n \in 0 .. 2} :
              Len(s) = 2 => s[1] # s[2]}
=============================================================================
