-------------------------------- MODULE MCApi --------------------------------
(***************************************************************************)
(* The small instance of module Api: what is sent in each scope. Token 1   *)
(* reads and token 2 writes; 0 is no token. Scope ask: requests that ask   *)
(* the person, two of them for one file. Scope calls: the ways to be       *)
(* refused, large bodies, and settings of which one is given. Scope write: *)
(* one transaction sent twice, a token that may not write, and a route     *)
(* that looks up the day first. Scope host: more connections than slots,   *)
(* which only take time. What else goes on is kept apart too: the theorems *)
(* of ApiProofs are about all of it together.                              *)
(***************************************************************************)
EXTENDS Api

Plain(route, secret) == [NoRequest EXCEPT !.route = route, !.secret = secret]
With(route, secret, args) == [Plain(route, secret) EXCEPT !.args = args]
Writes(route, secret, p, args) == [With(route, secret, {"out"} \cup args) EXCEPT !.path = p]
Pays(secret) ==
  [With("transactions.create", secret, {"name", "amount", "paymentDate", "categoryId", "clientUuid"}) EXCEPT !.uuid = 1]

SomeRequests ==
  [ask |-> <<{Writes("export.debts", 1, 1, {})}, {Writes("documents.get", 2, 1, {"id"}), Writes("export.json", 1, 2, {"from"})}>>,
   calls |-> <<{With("settings.set", 2, {"locale"}), [With("documents.add", 2, {"data", "name"}) EXCEPT !.large = TRUE]},
               {With("settings.set", 2, {"timezone"}), [Plain("status", 0) EXCEPT !.large = TRUE]}>>,
   write |-> <<{Pays(2), With("recurring.pay", 2, {"id"}), With("categories.delete", 2, {"id", "span"})}, {Pays(1), Pays(2)}>>,
   host |-> <<{Plain("status", 1)}, {Plain("status", 1)}, {Plain("status", 1)}>>]

WhatHappens == [ask |-> {"files"}, calls |-> {"lock", "window", "leave"}, write |-> {"lock"}, host |-> {"host"}]
===============================================================================
