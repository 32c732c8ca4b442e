SPECIFICATION Spec
CONSTANTS
  cam = cam
  NoUrl = NoUrl
  Urls <- MCUrls
  Choices <- MCChoices
  RTSP_AU_QUEUE = 2
  BACKLOG = 2
INVARIANT Decodable
PROPERTY Resumes
