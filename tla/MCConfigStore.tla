---------------------------- MODULE MCConfigStore ----------------------------
(* ConfigStore with two devices, two addresses, one credential and one note. *)
(* Contents differ by device, so that a row shows who wrote it, and only one *)
(* device is given the credential.                                           *)
EXTENDS ConfigStore, TLC

CONSTANTS a, b, x, y, v, w, k, p, t, u

MCAddresses == {x, y}
MCNames == {a, b, x}
MCContents == {v, w}
MCKeys == {k}
MCPorts == {p}
MCTexts == {t}
MCTwoTexts == {t, u}

MCDevice(i, m, val, s) ==
  [id |-> i, ip |-> m, val |-> val, secret |-> s, clear |-> FALSE]

MCNewDevices ==
  {MCDevice(a, x, v, k), MCDevice(b, x, w, None), MCDevice(b, y, w, None)}

MCFormDevices ==
  {MCDevice(a, x, v, None), MCDevice(b, y, w, None)}

MCChanges ==
  {[ip |-> x, val |-> v, secret |-> None, clear |-> FALSE],
   [ip |-> y, val |-> v, secret |-> None, clear |-> TRUE]}

\* asked describes the latest step only: no action reads it.
MCView == <<tables, file, cache, unsaved, faults>>
=============================================================================
