------------------------------ MODULE MCNodeInfo ------------------------------
(***************************************************************************)
(* One node, under configurations that come from a file, from the          *)
(* environment or from both.                                               *)
(***************************************************************************)
EXTENDS NodeInfo

Var(key, value) == [key |-> key, value |-> value]
Tag(c, v) == [category |-> c, name |-> v]
BIOS      == [i \in 1..16 |-> i]

Section(password) == [user |-> "u", password |-> password, port |-> "", insecure |-> FALSE,
                      dcs |-> "dc"]
File(vcs)  == [EmptyConfig EXCEPT !.zone = "z", !.region = "r", !.vcs = vcs]
LabelVars  == <<Var(<<"VSPHERE_LABEL_ZONE">>, "z"), Var(<<"VSPHERE_LABEL_REGION">>, "r")>>
GlobalVars == <<Var(<<"VSPHERE_VCENTER">>, "vc1"), Var(<<"VSPHERE_USER">>, "u"),
                Var(<<"VSPHERE_PASSWORD">>, "p"), Var(<<"VSPHERE_DATACENTER">>, "dc")>>

(* The cluster's zone is overridden on the host; a folder has the region.  *)
Tagged   == [path |-> [vm |-> <<"root", "c1", "h1">>],
             tags |-> [root |-> <<Tag("region", "r"), Tag("zone", "b")>>,
                       c1   |-> <<Tag("rack", "x")>>, h1 |-> <<Tag("zone", "a")>>]]
HalfTagged == [Tagged EXCEPT !.tags.root = << >>]

Account == [user |-> "u", password |-> "p"]
One(file, env, uuid, inv) ==
    [calls |-> 2, overlap |-> 1, file |-> file, env |-> env, uuid |-> BIOS, inv |-> inv,
     accounts |-> [vc1 |-> Account], vms |-> [vc1 |-> uuid]]

MCSetups ==
    <<[One(File([vc1 |-> Section("p")]), << >>, Swapped(BIOS), Tagged)
       EXCEPT !.overlap = 2],
      One(EmptyConfig, LabelVars \o GlobalVars, BIOS, HalfTagged),
      One(File([vc1 |-> Section("old")]),
          <<Var(<<"VSPHERE_VCENTER", "1">>, "vc1"), Var(<<"VCENTER", "1", "PASSWORD">>, "p"),
            Var(<<"VCENTER", "1", "USERNAME">>, "u")>>, BIOS, Tagged),
      One(EmptyConfig, GlobalVars, BIOS, Tagged),
      One(File([vc1 |-> Section("old")]),
          GlobalVars \o <<Var(<<"VSPHERE_VCENTER", "1">>, "vc1"),
                          Var(<<"VCENTER", "1", "PASSWORD">>, "q"),
                          Var(<<"VSPHERE_VCENTER", "2">>, "vc1")>>, BIOS, Tagged),
      One(EmptyConfig, LabelVars \o <<Var(<<"VSPHERE_VCENTER", "1">>, "vc1"),
                                      Var(<<"VSPHERE_USER">>, "u"),
                                      Var(<<"VCENTER", "1", "PASSWORD">>, "p=w")>>, BIOS, Tagged),
      [One(EmptyConfig, LabelVars \o GlobalVars
                        \o <<Var(<<"VSPHERE_VCENTER", "PORT">>, "443")>>, BIOS, Tagged)
       EXCEPT !.overlap = 2],
      [One(EmptyConfig, LabelVars \o GlobalVars
                        \o <<Var(<<"VSPHERE_VCENTER", "2">>, "vc2")>>, BIOS, Tagged)
       EXCEPT !.overlap = 2,
              !.accounts = [vc1 |-> Account, vc2 |-> Account],
              !.vms = [vc1 |-> BIOS, vc2 |-> << >>]]>>
===============================================================================
