------------------------------ MODULE MCVolumes ------------------------------
(* Instances of Volumes for TLC.                                           *)
EXTENDS Volumes

Volume(kind, name) ==
  [kind |-> kind, name |-> name, image |-> "", userData |-> "", networkConfig |-> "", size |-> "",
   path |-> "", cow |-> FALSE, cache |-> "", format |-> "", deviceClass |-> ""]

Image(name, url, f, compression) ==
  [kind |-> "Image", name |-> name, url |-> url, file |-> f, compression |-> compression]

Node(name, volumes, uefi) ==
  [kind |-> "Node", name |-> name, volumes |-> volumes, interfaces |-> <<"bridge">>, cpu |-> 1,
   smp |-> Nil, uefi |-> uefi, tpm |-> FALSE]

ImageVolumes == {[Volume("image", "v") EXCEPT !.image = i, !.cow = c] : i \in {"i1", "i2"}, c \in BOOLEAN}

RawVolumes == {[Volume("raw", "v") EXCEPT !.size = "1G", !.format = f] : f \in {"", "raw", "other"}}

LocalDS == {[Volume("localds", "v") EXCEPT !.userData = u, !.networkConfig = n] : u, n \in {"", "c"}}

HostPath == {[Volume("hostPath", "v") EXCEPT !.path = p] : p \in {"", "relative", "/h"}}

Images == <<Image("i1", "u", "", "gzip"), Image("i2", "", "f", "gzip")>>

\* Two nodes of one volume each, of the same or of different images.
TwoNodes ==
  {Images \o <<Node("n1", <<v>>, FALSE), Node("n2", <<w>>, FALSE)>> :
     v \in ImageVolumes, w \in ImageVolumes \cup RawVolumes}

\* One node of two volumes and NVRAM.
TwoVolumes ==
  {Images \o <<Node("n1", <<v, [w EXCEPT !.name = "w", !.cache = "unsafe"]>>, TRUE)>> :
     v \in LocalDS \cup HostPath, w \in ImageVolumes \cup RawVolumes}

\* What the code does not expect: two nodes of one name, two volumes of one
\* name, two images of one URL, and volumes whose image or device class is
\* missing or wrong.
WithVolume(docs0, v) == docs0 \o <<Node("n1", <<v>>, FALSE)>>

Copy == [Volume("image", "v") EXCEPT !.image = "i1"]

InClass == [Copy EXCEPT !.deviceClass = "ssd"]

Odd ==
  {Images \o <<Node("n", <<Copy>>, FALSE), Node("n", <<Copy>>, FALSE)>>,
   Images \o <<Node("n", <<Copy, [Copy EXCEPT !.image = "i2"]>>, FALSE)>>,
   <<Image("i1", "u", "", "gzip"), Image("i2", "u", "", ""),
     Node("n1", <<Copy, [Copy EXCEPT !.name = "w", !.image = "i2"]>>, FALSE)>>,
   WithVolume(<<>>, Copy),
   WithVolume(<<Image("i1", "u", "", "zip")>>, Copy),
   WithVolume(<<Image("i1", "unparsable", "", "")>>, Copy),
   WithVolume(<<Image("i1", "u", "f", "")>>, Copy),
   WithVolume(Images, InClass),
   WithVolume(Images \o <<[kind |-> "DeviceClass", name |-> "ssd", path |-> "/ssd"]>>, InClass),
   WithVolume(Images \o <<[kind |-> "DeviceClass", name |-> "ssd", path |-> "relative"]>>, InClass),
   <<[Node("n", <<>>, FALSE) EXCEPT !.cpu = 0]>>,
   <<[Node("n", <<>>, FALSE) EXCEPT !.smp = <<2>>]>>,
   <<[Node("n", <<>>, FALSE) EXCEPT !.cpu = 0, !.smp = <<2>>]>>,
   <<[Node("n", <<>>, TRUE) EXCEPT !.tpm = TRUE], Node("m", <<>>, FALSE)>>,
   Images \o <<[Node("n", <<[Copy EXCEPT !.image = "i2"]>>, TRUE) EXCEPT !.interfaces = <<"bridge", "veth">>],
               Node("m", <<[Copy EXCEPT !.image = "i2"]>>, FALSE)>>,
   <<[kind |-> "Other"]>>}

\* Networks and namespaces, good and bad.
Network(type, nat, address) ==
  [kind |-> "Network", nameLen |-> 4, type |-> type, useNAT |-> nat, address |-> address]

NetNS(interfaces, apps) ==
  [kind |-> "NetworkNamespace", name |-> "s", interfaces |-> interfaces, apps |-> apps]

Networks ==
  {<<Network(t, n, a)>> : t \in {"internal", "external", "bmc", "other"}, n \in BOOLEAN,
                          a \in {"", "10.0.0.1/24", "garbage"}}

NetNSs ==
  {<<NetNS(i, a)>> : i \in {<<>>, <<<<"net">>>>, <<<<"net">>, Nil>>}, a \in {<<>>, <<<<>>>>, <<<<"app">>>>}}

MCDefinitions == TwoNodes \cup TwoVolumes \cup Odd \cup Networks \cup NetNSs

=============================================================================
