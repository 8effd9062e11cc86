------------------------------ MODULE RedisCache ------------------------------
(* Redis keys that expire, as cache/redis.go uses them: Set is one SETEX,    *)
(* Get one GET, Delete one DEL.  A family of keys is a function to the time  *)
(* at which each expires; where the value of a key matters, the module that  *)
(* uses it keeps it in a variable of its own.                                *)
EXTENDS Naturals

Absent == 0     \* the key is not there

NoKeys(K) == [k \in K |-> Absent]

(* Mutant: a missing key is no error.                                        *)
FoundAnyway(keys, k) == TRUE

Found(keys, k) == keys[k] # Absent

SetEx(keys, k, until) == [keys EXCEPT ![k] = until]

Del(keys, k) == [keys EXCEPT ![k] = Absent]

(* What is left of the keys at time t.                                       *)
Expire(keys, t) == [k \in DOMAIN keys |-> IF keys[k] <= t THEN Absent ELSE keys[k]]

==============================================================================
