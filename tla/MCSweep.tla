------------------------------ MODULE MCSweep ------------------------------
EXTENDS Sweep

\* Row 2 replaces row 1.
MCChainOf == <<"c1", "c1">>
MCNonceOf == <<0, 0>>
MCSentAt == <<0, 1>>
MCValueOf == <<1, 1>>

Log(e, n, f, t) == [emitter |-> e, topics |-> n, wellFormed |-> TRUE, from |-> f, to |-> t,
                    amount |-> 2]
Receipt(s, u, p, l) == [status |-> s, used |-> u, price |-> p, logs |-> l]

Good == Receipt("0x1", 2, 2,
            <<Log("token", 3, "other", "me"), Log("system", 3, "other", "me"),
              Log("token", 4, "me", "other"), Log("token", 3, "me", "other"),
              Log("system", 3, "other", "x"), Log("system", 3, "other", "me")>>)
Failed == Receipt("0x0", 1, 2, <<>>)
MCReceiptIf == <<Good, Failed>>
=============================================================================
