------------------------------ MODULE Receipts ------------------------------
(***************************************************************************)
(* What a receipt carries and what a row keeps of it: rust-lib/src/        *)
(* receipt.rs, and history.rs absorb_receipt.  An address is a model       *)
(* value, in one casing; a quantity that is missing or unreadable is None. *)
(***************************************************************************)
EXTENDS Integers, FiniteSets, SequencesExt

CONSTANTS
    Account,        \* the account whose history it is
    SystemAddress,  \* EIP-7708's emitter
    TransfersMax,   \* TRANSFERS_MAX
    MaxWord         \* the greatest word

None == -1

\* A log by what decides its reading: its emitter, whether topic and data are a
\* Transfer's, and how many topics it has (an NFT's Transfer has one more).
IsTransfer(log) == log.wellFormed /\ log.topics = 3
Token(log) == IsTransfer(log) /\ log.emitter # SystemAddress
Native(log) == IsTransfer(log) /\ log.emitter = SystemAddress

Tokens(logs) == {l \in ToSet(logs) : Token(l)}
Natives(logs) == {l \in ToSet(logs) : Native(l)}

\* The entries of s that are in S, in the order of s.
Rank(I, i) == Cardinality({j \in I : j <= i})
Among(s, S) ==
    LET I == {i \in DOMAIN s : s[i] \in S}
    IN  [k \in 1..Cardinality(I) |-> s[CHOOSE i \in I : Rank(I, i) = k]]

Shorter(m, n) == IF m <= n THEN m ELSE n
Sorted(all, own) == Among(all, own) \o Among(all, ToSet(all) \ own)

\* Mutant: cut before it is sorted.
CutFirst(all, own) ==
    LET cut == Shorter(Len(all), TransfersMax)
    IN  [kept |-> Sorted(SubSeq(all, 1, cut), own), more |-> Len(all) - cut]

\* Own entries first, each group in log order, capped; `more` is what the cap dropped.
OwnFirst(all, own) ==
    LET cut == Shorter(Len(all), TransfersMax)
    IN  [kept |-> SubSeq(Sorted(all, own), 1, cut), more |-> Len(all) - cut]

Sent(logs) == {l \in ToSet(logs) : l.from = Account}
Touched(logs) == {l \in ToSet(logs) : l.from = Account \/ l.to = Account}

DecodeTransfers(receipt) == OwnFirst(Among(receipt.logs, Tokens(receipt.logs)), Sent(receipt.logs))
DecodeNative(receipt) == OwnFirst(Among(receipt.logs, Natives(receipt.logs)), Touched(receipt.logs))

\* Summed over every log that paid the account, the ones the cap drops too; none
\* when nothing came in, or the sum is no word.
NativeReceived(receipt) ==
    LET paid == Among(receipt.logs, {l \in Natives(receipt.logs) : l.to = Account})
        sum == FoldSeq(LAMBDA l, total : total + l.amount, 0, paid)
    IN  IF paid = <<>> \/ sum > MaxWord THEN None ELSE sum

Null == [status |-> "absent"]

\* "0x1" is confirmed, any other status failed, and no status is not an answer.
Classify(receipt) ==
    CASE receipt.status = "absent" -> "pending"
      [] receipt.status = "0x1" -> "confirmed"
      [] OTHER -> "failed"

Fee(receipt) ==
    IF receipt.used = None \/ receipt.price = None \/ receipt.used * receipt.price > MaxWord
    THEN None ELSE receipt.used * receipt.price

\* What left the account, for a confirmed row: a failed one moved the fee alone.
Total(receipt, value) ==
    IF Classify(receipt) # "confirmed" \/ Fee(receipt) = None \/ value + Fee(receipt) > MaxWord
    THEN None ELSE value + Fee(receipt)

\* The numbers a row takes from its receipt, and before it has one.
Absorbed(receipt, value) ==
    [fee |-> Fee(receipt), total |-> Total(receipt, value),
     transfers |-> DecodeTransfers(receipt), native |-> DecodeNative(receipt),
     received |-> NativeReceived(receipt)]
NoFigures == <<>>
=============================================================================
