------------------------------ MODULE MCQuote ------------------------------
EXTENDS Quote

\* Whole requests and the malformed ones; a deadline that cuts every step short,
\* some of them, or none.
MCRequests ==
    {r \in [chain : {1}, calls : {1, 2}, value : {3}, pin : {NoPin, 1}, sound : {TRUE},
            setFee : BOOLEAN, setTip : BOOLEAN, send : BOOLEAN, deadline : {0, 9, 20}] :
        r.pin = NoPin \/ r.calls = 2 => ~r.setFee /\ ~r.setTip}
    \cup [chain : {0, 1}, calls : {0, 1}, value : {0}, pin : {NoPin}, sound : {FALSE},
          setFee : {FALSE}, setTip : {FALSE}, send : BOOLEAN, deadline : {0}]

At1(s, f, t) == [chain |-> 1, nonce |-> 1, status |-> s, fee |-> f, tip |-> t]

\* Nothing there; one below the bump's resolution, one above; one to outbid on
\* each field; one no word is a whole bump above; a settled one; rows of another
\* chain and number.
MCHistories ==
    {{}, {At1("pending", 5, 2)}, {At1("unknown", 10, 0)},
     {At1("pending", 5, 2), At1("unknown", 2, 2)},
     {At1("unknown", 58, 2)}, {At1("mined", 5, 2)}, {At1("replaced", 20, 20)},
     {[At1("pending", 20, 20) EXCEPT !.chain = 2], [At1("pending", 20, 20) EXCEPT !.nonce = 2]}}
=============================================================================
