--------------------------- MODULE MCCampaigns ---------------------------
(* Instances of Campaigns for TLC: the constants a .cfg cannot write. *)
EXTENDS Campaigns, TLC

CONSTANT w1

(* Keys are strings, made as csv_helper makes them. *)
TextJoined(site, email) == site \o "_" \o email

TextIndexed(i) == "idx_" \o ToString(i)

Row(key, site, email, mail) ==
  [key |-> key, site |-> site, name |-> NULL, email |-> email, mail |-> mail]

File(rows) == [mailFirst |-> TRUE, rows |-> rows]

(* A website with its address, and another one before it, under a header   *)
(* that only the mapper knows; the same lead as an export whose address    *)
(* has been taken out, or replaced; a website alone; a file whose second   *)
(* row has no key.                                                         *)
Uploads ==
  {File(<<Row(NULL, "s", "e1", "e2")>>), File(<<Row("s_e1", "s", NULL, "e2")>>),
   File(<<Row(NULL, "s", NULL, NULL)>>),
   File(<<Row("s_e1", "s", "e1", NULL), Row(NULL, "s", "e2", NULL)>>)}

Asked == {{"s_e1"}}
==========================================================================
