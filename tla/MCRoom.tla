------------------------------- MODULE MCRoom -------------------------------
EXTENDS MediaRoom

CONSTANTS p, v, far, c1, c2, c3, c4, mic, cam, farMic, farCam, o1

(* A presenter who offers again, a viewer who then offers as a presenter,  *)
(* and a presenter on another node.                                        *)
Owners == [c \in {c1, c2, c3, c4} |-> IF c \in {c1, c2} THEN p ELSE v]
Sources == [m \in {mic, cam, farMic, farCam} |->
               IF m \in {mic, cam} THEN p ELSE far]

Mic(c) == <<c, mic, None>>
Cam(c, q) == <<c, cam, q>>
FarMic == <<Relay, farMic, None>>
FarCam(q) == <<Relay, farCam, q>>

(* A track over the limit; the microphone, then the camera, published      *)
(* again on the next connection; two layers; relayed media, one layer and  *)
(* two; the viewer's second offer.  A path breaks, and the room is closed, *)
(* where the state space stays small.                                      *)
Broken(c) == <<c, "failed">>
Together == {{c1, c3, Mic(c1), Cam(c1, "f"), p, Broken(c1), Broken(c3), RoomClose},
             {c1, c2, c3, Mic(c1), Mic(c2), v, Broken(c1), Broken(c3), RoomClose},
             {c1, c2, c3, Cam(c1, "f"), Cam(c2, "f")},
             {c1, c3, Cam(c1, "f"), Cam(c1, "q"), RoomClose},
             {c1, Cam(c1, "f"), Cam(c1, "q"), o1, RoomClose},
             {c1, c3, FarMic, FarCam("f"), o1, RoomClose},
             {c3, FarMic, FarCam("f"), FarCam("q"), o1, Broken(c3), RoomClose},
             {c1, c3, c4, Mic(c1)},
             {c3, c4, FarMic, FarCam("f"), RoomClose}}
Tracks == UNION Together \cap (Feeds \X Media \X {None, "f", "q"})
=============================================================================
