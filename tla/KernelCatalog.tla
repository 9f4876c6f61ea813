--------------------------- MODULE KernelCatalog ---------------------------
(* The kernel classes FleXR ships, as far as a recipe can tell them apart. *)
(* The constructor of a class registers its ports: the name, whether run() *)
(* waits for input on it, the type of its messages, and whether it has a   *)
(* function to (de)serialize them.  The YAML class of the kernel says      *)
(* which attributes a recipe must give and which port names make() takes.  *)

(* registerInPortTag and registerOutPortTag.  PLAIN messages are sent as   *)
(* the bytes of their object, the others have a function to serialize      *)
(* them.                                                                   *)
Port(type, coder, sem) == [type |-> type, coder |-> coder, sem |-> sem]
In(type)   == Port(type, "CODED", "BLOCKING")
Out(type)  == Port(type, "CODED", "BLOCKING")
Plain(type) == Port(type, "PLAIN", "BLOCKING")
Poll(type) == Port(type, "PLAIN", "NONBLOCKING")
NoPorts == [t \in {} |-> In("frame")]
Kernel(in, out) == [in |-> in, out |-> out]

BagCamera  == Kernel(NoPorts, [out_frame |-> Out("frame")])
CVCamera   == Kernel(NoPorts, [out_frame |-> Plain("frame")])
ImgPlayer  == Kernel(NoPorts, [out_frame |-> Out("frame")])
EurocMonoInertialReader ==
  Kernel(NoPorts, [out_frame |-> Out("frame"), out_imus |-> Out("imus")])
Keyboard   == Kernel(NoPorts, [out_key |-> Plain("key")])
Rgba2RgbAppSource == Kernel(NoPorts, [out_frame |-> Out("frame")])

CVDisplay       == Kernel([in_frame |-> In("frame")], NoPorts)
Cv2GlRgbDisplay == Kernel([in_frame |-> In("frame")], NoPorts)
NonDisplay      == Kernel([in_frame |-> Plain("frame")], NoPorts)
Rgb2RgbaAppSink == Kernel([in_frame |-> In("frame")], NoPorts)

FrameEncoder == Kernel([in_frame |-> In("frame")],
                       [out_encoded_frame |-> Out("encoded")])
FrameDecoder == Kernel([in_encoded_frame |-> In("encoded")],
                       [out_frame |-> Out("frame")])
NvmpiEncoder == Kernel([in_frame |-> In("frame")],
                       [out_encoded_frame |-> Out("encoded")])
NvmpiDecoder == Kernel([in_encoded_frame |-> In("encoded")],
                       [out_frame |-> Out("frame")])
FrameConverter == Kernel([in_frame |-> In("frame")],
                         [out_frame |-> Plain("frame")])
ArUcoDetector == Kernel([in_frame |-> In("frame")],
                        [out_marker_pose |-> Plain("pose")])
ArUcoCamLocator == Kernel([in_frame |-> In("frame")],
                          [out_cam_pose |-> Plain("pose")])
OrbCamLocator == Kernel([in_frame |-> In("frame")],
                        [out_cam_pose |-> Plain("pose")])
CudaOrbCamLocator == Kernel([in_frame |-> In("frame")],
                            [out_cam_pose |-> Plain("pose")])
(* With sensor "mono_inertial"; "mono" registers no in_imus, the others no *)
(* in-port at all.                                                         *)
OrbSlamPoseEstimator ==
  Kernel([in_frame |-> In("frame"), in_imus |-> In("imus")],
         [out_pose |-> Out("frame")])
SampleMarkerRenderer ==
  Kernel([in_frame |-> In("frame"), in_cam_pose |-> Poll("pose"),
          in_key |-> Poll("key")],
         [out_frame |-> Out("frame")])

SourceKernels ==
  [BagCamera |-> BagCamera, ImgPlayer |-> ImgPlayer, CVCamera |-> CVCamera,
   EurocMonoInertialReader |-> EurocMonoInertialReader, Keyboard |-> Keyboard,
   Rgba2RgbAppSource |-> Rgba2RgbAppSource]
SinkKernels ==
  [CVDisplay |-> CVDisplay, Cv2GlRgbDisplay |-> Cv2GlRgbDisplay,
   NonDisplay |-> NonDisplay, Rgb2RgbaAppSink |-> Rgb2RgbaAppSink]
IntermediateKernels ==
  [FrameDecoder |-> FrameDecoder, FrameEncoder |-> FrameEncoder,
   NvmpiDecoder |-> NvmpiDecoder, NvmpiEncoder |-> NvmpiEncoder,
   FrameConverter |-> FrameConverter, CudaOrbCamLocator |-> CudaOrbCamLocator,
   OrbCamLocator |-> OrbCamLocator, OrbSlamPoseEstimator |-> OrbSlamPoseEstimator,
   ArUcoDetector |-> ArUcoDetector, ArUcoCamLocator |-> ArUcoCamLocator,
   SampleMarkerRenderer |-> SampleMarkerRenderer]
Kernels ==
  [c \in DOMAIN SourceKernels \cup DOMAIN SinkKernels \cup DOMAIN IntermediateKernels |->
     IF c \in DOMAIN SourceKernels THEN SourceKernels[c]
     ELSE IF c \in DOMAIN SinkKernels THEN SinkKernels[c]
     ELSE IntermediateKernels[c]]
-----------------------------------------------------------------------------
(* The YAML classes: the attributes under "others" without which parsing   *)
(* throws; the in-ports and out-ports make() activates; the ports a recipe *)
(* may duplicate.                                                          *)
Yaml(others, in, out, dup) ==
  [others |-> others, in |-> in, out |-> out, dup |-> dup]

YamlBagCamera == Yaml({"frames_to_cache", "start_index", "bag_path", "bag_topic"},
                      {}, {"out_frame"}, {"out_frame"})
(* make() looks at no port name: AcceptsOut.                               *)
YamlCvCamera == Yaml({"width", "height", "dev_index or file_name"}, {}, {}, {})
YamlImgPlayer == Yaml({"image_path", "filename_zeros", "num_of_images",
                       "iterate", "caching"}, {}, {"out_frame"}, {"out_frame"})
YamlEurocMonoInertialReader ==
  Yaml({"img_path", "img_ts_path", "img_total", "imu_path", "imu_total"}, {},
       {"out_frame", "out_imus"}, {"out_frame", "out_imus"})
YamlKeyboard == Yaml({}, {}, {"out_key"}, {"out_key"})
YamlRgba2RgbAppSource == Yaml({"shmq_name", "max_shmq_elem", "width", "height"},
                              {}, {"out_frame"}, {"out_frame"})

YamlCvDisplay == Yaml({}, {"in_frame"}, {}, {})
YamlCv2GlRgbDisplay == Yaml({"width", "height"}, {"in_frame"}, {}, {})
YamlNonDisplay == Yaml({}, {"in_frame"}, {}, {})
YamlRgb2RgbaAppSink == Yaml({"shmq_name", "max_shmq_elem", "width", "height"},
                            {"in_frame"}, {}, {})

YamlFrameEncoder == Yaml({"encoder", "width", "height", "bitrate"}, {"in_frame"},
                         {"out_encoded_frame"}, {"out_encoded_frame"})
YamlFrameDecoder == Yaml({"decoder", "width", "height"}, {"in_encoded_frame"},
                         {"out_frame"}, {"out_frame"})
YamlNvmpiEncoder ==
  Yaml({"encoder", "width", "height", "bitrate", "fps", "qp"}, {"in_frame"},
       {"out_encoded_frame"}, {"out_encoded_frame"})
YamlNvmpiDecoder == Yaml({"decoder", "width", "height"}, {"in_encoded_frame"},
                         {"out_frame"}, {"out_frame"})
YamlFrameConverter == Yaml({"width", "height", "conversion_type"}, {"in_frame"},
                           {"out_frame"}, {"out_frame"})
YamlArUcoDetector == Yaml({"marker_dict", "width", "height"}, {"in_frame"},
                          {"out_marker_pose"}, {"out_marker_pose"})
YamlArUcoCamLocator == Yaml({"marker_dict", "width", "height"}, {"in_frame"},
                            {"out_cam_pose"}, {"out_frame"})
YamlOrbCamLocator == Yaml({"marker_image", "width", "height"}, {"in_frame"},
                          {"out_cam_pose"}, {"out_cam_pose"})
YamlCudaOrbCamLocator == Yaml({"marker_image", "width", "height"}, {"in_frame"},
                              {"out_cam_pose"}, {"out_cam_pose"})
YamlOrbSlamPoseEstimator ==
  Yaml({"voca_path", "slam_config_path", "sensor", "viewer"},
       {"in_frame", "in_imus"}, {"out_pose"}, {"out_pose"})
YamlSampleMarkerRenderer ==
  Yaml({"width", "height"}, {"in_frame", "in_key", "in_cam_pose"},
       {"out_frame"}, {"out_frame"})
=============================================================================
