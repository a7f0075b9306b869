-------------------------- MODULE DeploymentSteps --------------------------
(***************************************************************************)
(* A deployment script as data: one record per transaction it sends, in    *)
(* the order of the source.  A transaction is described by what makes it   *)
(* revert and by what it leaves behind:                                    *)
(*                                                                         *)
(*   by      who signs it                                                  *)
(*   make    the contract it creates, "" if none                           *)
(*   salt    "" or, created through the Create2Factory and so at an address*)
(*           that only the salt, the bytecode and the arguments determine, *)
(*           "chosen", an argument of the script that a task fills with an *)
(*           option or its own constant, or "fixed" in the script itself   *)
(*   on      the contract it calls, "" if none                             *)
(*   need    facts <<contract, field, holder>> that its require's ask for  *)
(*   least   <<token, wallet, n>>: the wallet holds at least n             *)
(*   empty   <<token, wallet>>: the wallet holds none                      *)
(*   that    a condition on the script's own parameters                    *)
(*   put     facts that hold afterwards                                    *)
(*   pay     token movements                                               *)
(*   check   not a transaction but a test of the script itself: where it   *)
(*           fails the script throws, and sends nothing more               *)
(*                                                                         *)
(* A field holds an address: an authority ("owner", "operator", ...) or a  *)
(* pointer to another contract.  Only what decides whether a later         *)
(* transaction goes through, or who commands a contract in the end, is     *)
(* kept: names, symbols, rates and logging are left out.                   *)
(***************************************************************************)
EXTENDS Naturals, Sequences

Nothing == [by |-> "deployer", make |-> "", salt |-> "", on |-> "", need |-> {},
            least |-> {}, empty |-> {}, that |-> TRUE, put |-> {}, pay |-> <<>>, check |-> FALSE]

Facts(c, fields) == {<<c, f, fields[f]>> : f \in DOMAIN fields}

\* deployContract and waitForTx: a new contract, with what its constructor sets.
Deploy(c, fields) == [Nothing EXCEPT !.make = c, !.put = Facts(c, fields)]

\* deployContractWithCreate2: the constructor runs in the factory, and so do the
\* callbacks (transferOwnership, ...), within the same transaction.
Deploy2(c, fields) == [Deploy(c, fields) EXCEPT !.salt = "chosen"]

\* A call that whoever holds role on c may make.
CallBy(who, c, role, fields) ==
    [Nothing EXCEPT !.by = who, !.on = c, !.need = {<<c, role, who>>}, !.put = Facts(c, fields)]
Call(c, role, fields) == CallBy("deployer", c, role, fields)

\* A call that needs no role (setApprovals, transfer, ...).
OpenCallBy(who, c, fields) == [Nothing EXCEPT !.by = who, !.on = c, !.put = Facts(c, fields)]
OpenCall(c, fields) == OpenCallBy("deployer", c, fields)

\* The authority is handed to whom.
HandOver(c, role, whom) ==
    [Call(c, role, <<>>) EXCEPT !.put = {<<c, role, whom>>}]

Needing(tx, facts) == [tx EXCEPT !.need = @ \cup facts]
Leaving(tx, facts) == [tx EXCEPT !.put = @ \cup facts]
WithAtLeast(tx, token, wallet, n) == [tx EXCEPT !.least = @ \cup {<<token, wallet, n>>}]
Paying(tx, pays) == [tx EXCEPT !.pay = @ \o pays]

\* n tokens, or a share num/den of what the sender holds; minted if from is nobody.
Amount(token, from, to, n) ==
    [token |-> token, from |-> from, to |-> to, n |-> n, num |-> 0, den |-> 1]
Share(token, from, to, num, den) ==
    [token |-> token, from |-> from, to |-> to, n |-> 0, num |-> num, den |-> den]
Whole(token, from, to) == Share(token, from, to, 1, 1)

\* if (...) throw
Check == [Nothing EXCEPT !.check = TRUE]
CheckThat(condition) == [Check EXCEPT !.that = condition]
CheckHolds(token, wallet, n) == [Check EXCEPT !.least = {<<token, wallet, n>>}]
CheckEmpty(token, wallet) == [Check EXCEPT !.empty = {<<token, wallet>>}]
=============================================================================
