------------------------------ MODULE EventLog ------------------------------
(***************************************************************************)
(* Matching of contract events (pkg/eventlog and the mapper mixin of       *)
(* pkg/dex/mapper.go).                                                     *)
(*                                                                         *)
(* The source stores hand the parser one log per event type: all events of *)
(* that type in a transaction, flattened into one list of attributes.  A   *)
(* rule is a short list of keys (some with a filter on the value) found as *)
(* consecutive attributes; a rule with an "until" key also takes what      *)
(* follows, up to that key.  An attribute is a record of its key, its      *)
(* value and the index of the message that emitted it.  Addresses, tokens  *)
(* and the empty value None are model values, an amount is an integer and  *)
(* a list of coins is a sequence.                                          *)
(*                                                                         *)
(* Positions count from 1 here and from 0 in the code.                     *)
(***************************************************************************)
EXTENDS Integers, Sequences, SequencesExt

CONSTANT None   \* the empty string

(* Keys the matcher steps over. *)
skipKeys == {"msg_index", "token_id"}

(* A rule item without a filter, and one that accepts a set of values. *)
AnyValue(key)          == [key |-> key, any |-> TRUE,  in |-> {}]
ValueIn(key, accepted) == [key |-> key, any |-> FALSE, in |-> accepted]

Match(item, attr) == item.key = attr.key /\ (item.any \/ attr.val \in item.in)

(* The next item of a rule of a given size: "found" is what the items      *)
(* before it matched, all in one message, and "next" the attribute to look *)
(* at.  One skipped key before it shifts the window by one as long as it   *)
(* still fits.                                                             *)
MatchItem(size, attrs, m, item) ==
    LET skips == attrs[m.next].key \in skipKeys /\ m.next - Len(m.found) + size <= Len(attrs)
        at    == IF skips THEN m.next + 1 ELSE m.next
        inMsg == m.found # <<>> => attrs[at].msg = Last(m.found).msg
    IN CASE m.failed -> m
         [] ~m.failed /\ Match(item, attrs[at]) /\ inMsg ->
              [m EXCEPT !.found = Append(@, attrs[at]), !.next = at + 1]
         [] OTHER -> [m EXCEPT !.next = at, !.failed = TRUE]

(* The longest prefix of the rule's items matched from a position on. *)
NothingFound(at) == [found |-> <<>>, next |-> at, failed |-> FALSE]
findMatchingSubseq(rule, attrs, at) ==
    LET after[i \in 0..Len(rule.items)] ==
            IF i = 0 THEN NothingFound(at)
            ELSE MatchItem(Len(rule.items), attrs, after[i - 1], rule.items[i])
    IN after[Len(rule.items)]

(* What follows a match: the attributes before the next "until" key,       *)
(* skipped keys left out.                                                  *)
Unskipped(match, attr) == IF attr.key \in skipKeys THEN match ELSE Append(match, attr)
Until(rule, attrs, from) ==
    LET ends == {j \in from..Len(attrs) : attrs[j].key = rule.until}
    IN IF rule.until = None THEN from
       ELSE IF ends = {} THEN Len(attrs) + 1
       ELSE CHOOSE j \in ends : \A k \in ends : j <= k
appendUntil(rule, attrs, m) ==
    LET stop == Until(rule, attrs, m.next)
        with[k \in 0..stop - m.next] ==
            IF k = 0 THEN m.found ELSE Unskipped(with[k - 1], attrs[m.next + k - 1])
    IN [found |-> with[stop - m.next], next |-> stop]

(* All matches in one log, none overlapping another: the search goes on    *)
(* behind a match, and with the next attribute where there is none.        *)
SearchAt(rule, attrs, search, at) ==
    LET m    == findMatchingSubseq(rule, attrs, at)
        full == appendUntil(rule, attrs, m)
    IN IF at < search.next \/ at + Len(rule.items) - 1 > Len(attrs) \/ Len(m.found) # Len(rule.items)
       THEN search
       ELSE [next |-> full.next, matches |-> Append(search.matches, full.found)]
NothingSearched == [next |-> 1, matches |-> <<>>]
FindFromAttrs(rule, attrs) ==
    LET upTo[at \in 0..Len(attrs)] ==
            IF at = 0 THEN NothingSearched ELSE SearchAt(rule, attrs, upTo[at - 1], at)
    IN upTo[Len(attrs)].matches

(* Mutant: a log of another type ends the search. *)
FindUntilOtherType(rule, logs) ==
    FlattenSeq([i \in DOMAIN logs |->
        IF \A j \in 1..i : logs[j].type = rule.type THEN FindFromAttrs(rule, logs[i].attrs) ELSE <<>>])

FindFromLogs(rule, logs) ==
    FlattenSeq([i \in DOMAIN logs |->
        IF logs[i].type = rule.type THEN FindFromAttrs(rule, logs[i].attrs) ELSE <<>>])

(* The attributes of a sequence in the order of "keys"; equal keys keep    *)
(* their order.                                                            *)
ByKey(keys, attrs) ==
    FlattenSeq([k \in DOMAIN keys |-> SelectSeq(attrs, LAMBDA a : a.key = keys[k])])

(* A log reduced to the filter's keys and cut into groups, each sorted in  *)
(* the filter's order.  A repeated key or a full group closes a group, so  *)
(* no group has a key twice.                                               *)
InOrder(filter, group) ==
    LET Of(key) == {i \in DOMAIN group : group[i].key = key}
    IN FlattenSeq([k \in DOMAIN filter |->
           IF Of(filter[k]) = {} THEN <<>> ELSE <<group[CHOOSE i \in Of(filter[k]) : TRUE]>>])
Flush(filter, acc) == [sorted |-> acc.sorted \o InOrder(filter, acc.group), group |-> <<>>]
Grow(filter, acc, attr) ==
    LET repeated == \E i \in DOMAIN acc.group : acc.group[i].key = attr.key
    IN [(IF repeated THEN Flush(filter, acc) ELSE acc) EXCEPT !.group = Append(@, attr)]
TakeAttr(filter, acc, attr) ==
    IF \A k \in DOMAIN filter : filter[k] # attr.key THEN acc
    ELSE LET grown == Grow(filter, acc, attr)
         IN IF Len(grown.group) = Len(filter) THEN Flush(filter, grown) ELSE grown
SortAttributes(attrs, filter) ==
    LET taken[i \in 0..Len(attrs)] ==
            IF i = 0 THEN [sorted |-> <<>>, group |-> <<>>]
            ELSE TakeAttr(filter, taken[i - 1], attrs[i])
    IN Flush(filter, taken[Len(attrs)]).sorted

(* One value per key, for the keys a mapper consumes: the value of a key,  *)
(* None when it is absent, and whether a consumed key has several values.  *)
Has(res, key)   == \E i \in DOMAIN res : res[i].key = key
Value(res, key) == IF Has(res, key) THEN SelectSeq(res, LAMBDA a : a.key = key)[1].val ELSE None
AmbiguousFor(res, consumedKeys) ==
    \E i, j \in DOMAIN res : i # j /\ res[i].key = res[j].key /\ res[i].key \in consumedKeys

MsgIndex(res) == res[1].msg

-----------------------------------------------------------------------------
(* The checks and the sorting every mapper shares (pkg/dex/mapper.go). *)

CheckResult(res, minLen) ==
    IF Len(res) < minLen THEN "short"
    ELSE IF \E i \in DOMAIN res : res[i].val = None THEN "empty"
    ELSE "ok"

(* The keys the contracts use, in the byte order the code sorts by. *)
KeyOrder == <<"_contract_address", "action", "amount", "ask_asset", "assets", "by",
              "commission_amount", "cw20_tax_amount", "from", "liquidity_token_addr",
              "offer_amount", "offer_asset", "pair", "receiver", "refund_assets",
              "return_amount", "sender", "share", "spread_amount", "tax_amount", "to",
              "withdrawn_share">>

(* Every contract's section of a match sorted by key.  sort.Slice keeps    *)
(* the order of equal keys in a section of at most 12 attributes, where it *)
(* is an insertion sort; the contracts emit no longer one.                 *)
SortResult(res) ==
    LET Close(acc)   == acc.sorted \o ByKey(KeyOrder, acc.section)
        Take(acc, a) == IF a.key = "_contract_address"
                        THEN [sorted |-> Close(acc), section |-> <<a>>]
                        ELSE [acc EXCEPT !.section = Append(@, a)]
    IN Close(FoldLeft(Take, [sorted |-> <<>>, section |-> <<>>], res))
=============================================================================
