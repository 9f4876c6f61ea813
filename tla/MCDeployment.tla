---------------------------- MODULE MCDeployment ----------------------------
(* Recipes: every class alone with its documented ports and a duplicate,   *)
(* the marker pipeline, and each of them with one mistake.                 *)
EXTENDS Deployment

InP(t, ch) == [name |-> t, channel |-> ch, sem |-> "BLOCKING", dup |-> "", fits |-> TRUE]
OutP(t, ch, sem, dup) == [name |-> t, channel |-> ch, sem |-> sem, dup |-> dup, fits |-> TRUE]
E(k, id, single, in, out) ==
  [kernel |-> k, id |-> id, others |-> YamlKernels[k].others, single |-> single,
   sensor |-> "mono_inertial", iterate |-> FALSE, in |-> in, out |-> out]
C(s, sp, r, rp) == [send |-> s, sendPort |-> sp, recv |-> r, recvPort |-> rp]

(* A single kernel on remote and shared-memory ports, its first out-port   *)
(* duplicated.                                                             *)
Alone(k, ch) ==
  LET in  == SetToSeq(DOMAIN Kernels[k].in)
      out == SetToSeq(DOMAIN Kernels[k].out)
  IN E(k, "k", "true",
       [i \in 1..Len(in) |-> InP(in[i], ch)],
       [i \in 1..Len(out) |-> OutP(out[i], ch, "NONBLOCKING", "")]
         \o IF out = << >> THEN << >>
            ELSE <<OutP("out_dup", "shm", "NONBLOCKING", out[1])>>)
Alones == {[entries |-> <<Alone(k, ch)>>, conns |-> << >>] :
             k \in DOMAIN Kernels, ch \in {"shm", "RTP"}}

Player == E("ImgPlayer", "play", "absent", << >>,
            <<OutP("out_frame", "raftlib", "BLOCKING", ""),
              OutP("out_frame2", "raftlib", "NONBLOCKING", "out_frame")>>)
Detector == E("ArUcoDetector", "detect", "absent", <<InP("in_frame", "raftlib")>>,
              <<OutP("out_marker_pose", "raftlib", "BLOCKING", "")>>)
Renderer == E("SampleMarkerRenderer", "render", "absent",
              <<InP("in_frame", "raftlib"), InP("in_cam_pose", "raftlib"), InP("in_key", "TCP")>>,
              <<OutP("out_frame", "raftlib", "BLOCKING", "")>>)
Display == E("Cv2GlRgbDisplay", "display", "absent", <<InP("in_frame", "raftlib")>>, << >>)
Keys == E("Keyboard", "keys", "true", << >>, <<OutP("out_key", "TCP", "BLOCKING", "")>>)
PipelineConns == <<C("play", "out_frame", "render", "in_frame"),
                   C("play", "out_frame2", "detect", "in_frame"),
                   C("detect", "out_marker_pose", "render", "in_cam_pose"),
                   C("render", "out_frame", "display", "in_frame")>>
Pipeline == [entries |-> <<Player, Detector, Renderer, Display, Keys>>,
             conns |-> PipelineConns]

(* Two kernels: one entry of a camera and a display of frames.             *)
Camera == E("BagCamera", "cam", "absent", << >>, <<OutP("out_frame", "raftlib", "BLOCKING", "")>>)
Screen == E("CVDisplay", "show", "absent", <<InP("in_frame", "raftlib")>>, << >>)
Pair(c, s) == [entries |-> <<c, s>>, conns |-> <<C("cam", "out_frame", "show", "in_frame")>>]

(* Mistakes: an attribute left out, a kernel nobody knows, one id twice,   *)
(* single: false, a wrong or unknown port name or connection type, a port  *)
(* or duplicate listed twice, elements too small, a connection left out or made twice.  *)
Mistakes ==
  {Pair(Camera, [Screen EXCEPT !.id = "cam"]),
   Pair([Camera EXCEPT !.others = {}], Screen),
   Pair([Camera EXCEPT !.kernel = "TestKernel"], Screen),
   Pair([Camera EXCEPT !.single = "false"], Screen),
   Pair(Camera, [Screen EXCEPT !.in[1].name = "in_frames"]),
   Pair(Camera, [Screen EXCEPT !.in[1].channel = "none"]),
   Pair([Camera EXCEPT !.out[1].channel = "none"], Screen),
   Pair([Camera EXCEPT !.out = @ \o <<OutP("out_frame", "shm", "NONBLOCKING", "")>>], Screen),
   Pair([Camera EXCEPT !.out = << OutP("dup", "shm", "BLOCKING", "out_frame"),
                                  OutP("dup", "TCP", "NONBLOCKING", "out_frame")>> \o @], Screen),
   Pair([Camera EXCEPT !.out = @ \o <<OutP("dup2", "shm", "NONBLOCKING", "dup")>>], Screen),
   Pair([Camera EXCEPT !.out = @ \o <<OutP("dup2", "raftlib", "NONBLOCKING", "out_frame")>>], Screen),
   Pair(Camera, [Screen EXCEPT !.in[1] = [@ EXCEPT !.channel = "shm", !.fits = FALSE]]),
   [Pair(Camera, Screen) EXCEPT !.conns = << >>],
   [Pair(Camera, Screen) EXCEPT !.conns = @ \o @],
   [Pipeline EXCEPT !.conns = Tail(@)],
   [Pipeline EXCEPT !.entries[2].out[1].name = "out_cam_pose"],
   [entries |-> <<[Keys EXCEPT !.out = @ \o <<OutP("out_key", "shm", "NONBLOCKING", "")>>]>>,
    conns |-> << >>],
   [entries |-> <<Keys, [Keys EXCEPT !.id = "more"]>>, conns |-> << >>],
   [entries |-> <<E("EurocMonoInertialReader", "k", "true", << >>,
      <<OutP("out_frame", "RTP", "BLOCKING", ""), OutP("out_imus", "RTP", "BLOCKING", ""),
        OutP("dup", "shm", "BLOCKING", "out_frame"), OutP("dup", "shm", "BLOCKING", "out_imus")>>)>>,
    conns |-> << >>],
   [entries |-> <<[Alone("OrbSlamPoseEstimator", "shm") EXCEPT !.sensor = "mono"]>>,
    conns |-> << >>],
   [entries |-> <<[Alone("OrbSlamPoseEstimator", "shm") EXCEPT !.sensor = "stereo"]>>,
    conns |-> << >>]}

(* Any two kernels linked by a stream of a type both handle; the ports     *)
(* they have besides are remote.                                           *)
Wire(k, id, linked) ==
  LET in  == SetToSeq(DOMAIN Kernels[k].in)
      out == SetToSeq(DOMAIN Kernels[k].out)
      Ch(t) == IF t = linked THEN "raftlib" ELSE "TCP"
  IN E(k, id, "absent", [i \in 1..Len(in) |-> InP(in[i], Ch(in[i]))],
                        [i \in 1..Len(out) |-> OutP(out[i], Ch(out[i]), "NONBLOCKING", "")])
Wired(k, s, l, r) ==
  [entries |-> <<Wire(l, "recv", r), Wire(k, "send", s)>>,
   conns |-> <<C("send", s, "recv", r)>>]
PortsOf(side) == UNION {{<<k, t>> : t \in DOMAIN Kernels[k][side]} : k \in DOMAIN Kernels}
Twos == {Wired(x[1][1], x[1][2], x[2][1], x[2][2]) :
  x \in {y \in PortsOf("out") \X PortsOf("in") :
           Kernels[y[1][1]].out[y[1][2]].type = Kernels[y[2][1]].in[y[2][2]].type}}

(* The marker pipeline without the keyboard comes to an end, also next to  *)
(* a kernel nobody runs.                                                   *)
Quiet == [Pipeline EXCEPT !.entries = Append(SubSeq(@, 1, 4), [Keys EXCEPT !.single = "absent"])]

(* A duplicate may have the name of an in-port of its kernel.              *)
Converter == E("FrameConverter", "conv", "absent", <<InP("in_frame", "raftlib")>>,
               <<OutP("out_frame", "raftlib", "BLOCKING", ""),
                 OutP("in_frame", "raftlib", "NONBLOCKING", "out_frame")>>)
SameName == [entries |-> <<Camera, Converter, Screen, [Screen EXCEPT !.id = "show2"]>>,
             conns |-> <<C("cam", "out_frame", "conv", "in_frame"),
                         C("conv", "out_frame", "show", "in_frame"),
                         C("conv", "in_frame", "show2", "in_frame")>>]

(* Images shown at the two ends of a tree of streams, once or again and    *)
(* again; and two converters that wait for each other.                     *)
Images == E("ImgPlayer", "cam", "absent", << >>,
            <<OutP("out_frame", "raftlib", "BLOCKING", "")>>)
Tree == [SameName EXCEPT !.entries[1] = Images]
Again == [Tree EXCEPT !.entries[1].iterate = TRUE]
OneWay(id) == [Converter EXCEPT !.id = id, !.out = SubSeq(@, 1, 1)]
Ring == [entries |-> <<OneWay("there"), OneWay("back")>>,
         conns |-> <<C("there", "out_frame", "back", "in_frame"),
                     C("back", "out_frame", "there", "in_frame")>>]

MCRecipes == Alones \cup Twos \cup Mistakes
               \cup {Pipeline, Quiet, SameName, Pair(Camera, Screen), Tree, Again, Ring}
=============================================================================
