----------------------------- MODULE MCSessions -----------------------------
EXTENDS Sessions, TLC
CONSTANTS l1, l2, cb1, cb2, cb3, r1, r2
MCCallbackOf == [c \in Callbacks |-> IF c = cb3 THEN l2 ELSE l1]
Token(l, lv) == [ours |-> TRUE, nonce |-> l, aud |-> {"us"}, azp |-> Absent, exp |-> Absent, nbf |-> Absent, levels |-> lv]
MCTokens == {Token(l1, {1}), Token(l2, {1, 2}), [Token(l1, {2}) EXCEPT !.exp = 0],
             [Token(l1, {2}) EXCEPT !.aud = {"us", "them"}, !.azp = "them"],
             [Token(l2, {}) EXCEPT !.nbf = 2]}
SameSessions == Permutations({r1, r2}) \cup Permutations({cb1, cb2})
=============================================================================
