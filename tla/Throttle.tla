------------------------------ MODULE Throttle ------------------------------
(* adapters/http: the token bucket, the bounded LRU map of buckets and the  *)
(* client identity they are keyed by, as operators.                         *)
(*                                                                          *)
(* Time is in ticks, a rate in whole tokens per tick.  A map is the LRU     *)
(* list, most recently used first, of [key, id, last]; id names a bucket on *)
(* the heap, because a caller keeps its bucket after an eviction.           *)
EXTENDS Integers, Sequences, SequencesExt, FiniteSets

CONSTANTS
  MaxEntries,   \* RateLimitConfig.EvictionMaxEntries
  TTL           \* RateLimitConfig.EvictionTTL, in ticks

newTokenBucket(burst, now) == [tokens |-> burst, at |-> now]

(* allow, under the bucket's lock: refill for the time elapsed, capped at   *)
(* burst, then take a token if there is one.                                *)
Refilled(b, now, rate, burst) ==
  LET grown == b.tokens + (now - b.at) * rate
  IN IF now <= b.at THEN b
     ELSE [tokens |-> IF grown > burst THEN burst ELSE grown, at |-> now]

HasToken(b, now, rate, burst) == Refilled(b, now, rate, burst).tokens >= 1

(* Mutants: a refused request is charged too; the time of the refill is not *)
(* recorded.                                                                *)
AfterAllowAlways(b, now, rate, burst) ==
  LET r == Refilled(b, now, rate, burst)
  IN [r EXCEPT !.tokens = @ - 1]
AfterAllowSameTime(b, now, rate, burst) ==
  LET r == Refilled(b, now, rate, burst)
  IN IF r.tokens >= 1 THEN [tokens |-> r.tokens - 1, at |-> b.at] ELSE [r EXCEPT !.at = b.at]

AfterAllow(b, now, rate, burst) ==
  LET r == Refilled(b, now, rate, burst)
  IN IF r.tokens >= 1 THEN [r EXCEPT !.tokens = @ - 1] ELSE r

-----------------------------------------------------------------------------
(* From the back, up to the first entry that is still fresh. *)
evictExpiredLocked(m, now) ==
  LET fresh == {i \in DOMAIN m : now - m[i].last < TTL}
  IN IF fresh = {} THEN <<>> ELSE SubSeq(m, 1, CHOOSE i \in fresh : \A j \in fresh : j <= i)

evictOverCapLocked(m) == IF Len(m) > MaxEntries THEN SubSeq(m, 1, MaxEntries) ELSE m

HitsOf(m, key) == {i \in DOMAIN m : m[i].key = key}

(* Mutant: a hit stays where it is. *)
getOrCreateInPlace(m0, key, fresh, now) ==
  LET m == evictExpiredLocked(m0, now)
      hits == HitsOf(m, key)
      i == CHOOSE j \in hits : TRUE
  IN IF hits # {} THEN [m EXCEPT ![i].last = now]
     ELSE evictOverCapLocked(<<[key |-> key, id |-> fresh, last |-> now]>> \o m)

(* The map after getOrCreate when `fresh` is the bucket newBucket makes:    *)
(* a hit moves to the front, a miss is pushed there and may push the last   *)
(* entry out.                                                               *)
getOrCreate(m0, key, fresh, now) ==
  LET m == evictExpiredLocked(m0, now)
      hits == HitsOf(m, key)
      i == CHOOSE j \in hits : TRUE
  IN IF hits # {} THEN <<[m[i] EXCEPT !.last = now]>> \o RemoveAt(m, i)
     ELSE evictOverCapLocked(<<[key |-> key, id |-> fresh, last |-> now]>> \o m)

IsHit(m, key, now) == HitsOf(evictExpiredLocked(m, now), key) # {}

-----------------------------------------------------------------------------
(* clientIP: an address is a model value, "garbled" one that does not parse *)
(* and "" an absent header.  A request has remote, xff (a sequence of hops) *)
(* and realIP.                                                              *)
addrTrusted(addr, trusted) == addr \in trusted

parseHeaderAddr(raw) == IF raw \in {"", "garbled"} THEN "" ELSE raw

(* Mutant: the chain is read from the left, as the client wrote it. *)
forwardedClientIPLeft(r, trusted) ==
  LET others == {i \in DOMAIN r.xff : ~addrTrusted(r.xff[i], trusted)}
  IN IF r.xff = <<>> THEN parseHeaderAddr(r.realIP)
     ELSE IF others = {} THEN ""
     ELSE parseHeaderAddr(r.xff[CHOOSE i \in others : \A j \in others : i <= j])

(* "" when there is nothing usable.  From the right: the first hop that is  *)
(* not trusted, unless it is garbled.                                       *)
forwardedClientIP(r, trusted) ==
  LET others == {i \in DOMAIN r.xff : ~addrTrusted(r.xff[i], trusted)}
  IN IF r.xff = <<>> THEN parseHeaderAddr(r.realIP)
     ELSE IF others = {} THEN ""
     ELSE parseHeaderAddr(r.xff[CHOOSE i \in others : \A j \in others : j <= i])

clientIP(r, trusted) ==
  LET forwarded == forwardedClientIP(r, trusted)
  IN IF ~addrTrusted(r.remote, trusted) \/ forwarded = "" THEN r.remote ELSE forwarded
=============================================================================
