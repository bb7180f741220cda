----------------------------- MODULE MCAccounts -----------------------------
(***************************************************************************)
(* Instances of Accounts, and with it of Retention, for TLC.               *)
(***************************************************************************)
EXTENDS Accounts, TLC

CONSTANTS d1, d2, x1, t1, v1, v2, b1, b2, c1, c2, ann, bob

Scene(acting, n, users, owners, links, faults) ==
  [actors |-> acting, quota |-> n, users |-> users, owners |-> owners, links |-> links,
   outages |-> faults]

Nobody == <<None, None, None, None>>
Ann    == <<ann, None, None, None>>

AllScenes ==
  {Scene({v1, v2}, 3, Nobody, <<>>, <<>>, 0),
   Scene({d1, d2, x1}, 0, Ann, <<1>>, <<>>, 2),
   Scene({d1, x1, t1}, 0, Ann, <<1>>, <<>>, 2),
   Scene({d1, x1, t1, c1}, 0, Ann, <<1>>, <<>>, 1),
   Scene({v1, b1, c1}, 1, Ann, <<>>, <<1>>, 0),
   Scene({b1, b2, c1}, 0, Ann, <<>>, <<1>>, 1),
   Scene({b1, c1, c2}, 0, Ann, <<>>, <<1>>, 0)}

=============================================================================
